---- MODULE Spec2Model ----
(***************************************************************************)
(* EconSim-Core: the simulation kernel (runTick), the accounting guard     *)
(* (transferMoney / transferResource), the deterministic generator and the *)
(* shipped markets, behaviors and institutions.                            *)
(*                                                                         *)
(* Numbers.  The source computes in IEEE doubles; TLA+ has integers only.  *)
(* Money is kept in hundredths of a currency unit (cash 150 is 15000),     *)
(* skill levels and the smoothed inventory in hundredths, and every        *)
(* product with a fractional factor is rounded down to that grid.  The     *)
(* generator is modelled bit for bit on 32-bit words.                      *)
(***************************************************************************)
EXTENDS Integers, Sequences, FiniteSets, TLC

\* ------------------------------------------------------------------ bounds
\* The shipped populations are 10 firms and 50 households; the model runs a
\* reduced population for a bounded number of ticks.
NumFirms == 2
NumHouseholds == 6
MaxTick == 66
\* The accounting harness (SpecTransfer): number of transferMoney calls.
MaxCalls == 2

\* ------------------------------------------------------- program constants
NumBanks == 1
MAX_LEDGER_ITEMS == 1000
MAX_HISTORY_LENGTH == 100
FOOD_CONSUMPTION == 1
STARVATION_THRESHOLD == 3
INSOLVENCY_THRESHOLD == 3
FORGIVING_THRESHOLD == 6
FIRM_MIN_CASH == 5000
WEALTH_TAX_THRESHOLD == 300000
FIRE_SALE_INVENTORY_MULT == 4
INITIAL_SEED == 1337
PRICE_CONSUMER_GOODS == 1000
PRICE_LABOR == 2000

NoId == ""
GOVT == "GOVT_01"
CB == "CB_01"

HOUSEHOLD == "HOUSEHOLD"
FIRM == "FIRM"
BANK == "BANK"
GOVERNMENT == "GOVERNMENT"
CENTRAL_BANK == "CENTRAL_BANK"

ResourceType == {"LABOR", "RAW_MATERIALS", "CONSUMER_GOODS", "CAPITAL_EQUIPMENT"}
GOODS == "CONSUMER_GOODS"

FirmIds == [i \in 1..NumFirms |-> "FIRM_" \o ToString(i - 1)]
HouseholdIds == [i \in 1..NumHouseholds |-> "HH_" \o ToString(i - 1)]
BankIds == [i \in 1..NumBanks |-> "BANK_" \o ToString(i - 1)]

\* Insertion order of the agents Map, which is the order of every forEach.
AgentOrder == <<GOVT, CB>> \o FirmIds \o HouseholdIds \o BankIds
AgentIds == {AgentOrder[i] : i \in 1..Len(AgentOrder)}

Min(a, b) == IF a < b THEN a ELSE b
Max(a, b) == IF a > b THEN a ELSE b

\* ------------------------------------------------- 32-bit word arithmetic
\* A 32-bit word is <<hi, lo>>, two 16-bit halves (TLC's integers are 32-bit
\* signed, so a full word does not fit in one).
RECURSIVE XorBits(_, _, _)
XorBits(a, b, n) ==
  IF n = 0 THEN 0
  ELSE (((a % 2) + (b % 2)) % 2) + 2 * XorBits(a \div 2, b \div 2, n - 1)

RECURSIVE OrBits(_, _, _)
OrBits(a, b, n) ==
  IF n = 0 THEN 0
  ELSE (IF (a % 2) + (b % 2) > 0 THEN 1 ELSE 0) + 2 * OrBits(a \div 2, b \div 2, n - 1)

RECURSIVE Pow2(_)
Pow2(k) == IF k = 0 THEN 1 ELSE 2 * Pow2(k - 1)

Xor32(a, b) == <<XorBits(a[1], b[1], 16), XorBits(a[2], b[2], 16)>>
\* t | c for a small constant c < 65536
OrSmall(a, c) == <<a[1], OrBits(a[2], c, 16)>>
\* a >>> k, 0 < k < 16
Shr32(a, k) ==
  <<a[1] \div Pow2(k), (a[2] \div Pow2(k)) + (a[1] % Pow2(k)) * Pow2(16 - k)>>
Add32(a, b) ==
  LET lo == a[2] + b[2]
  IN <<(a[1] + b[1] + (lo \div 65536)) % 65536, lo % 65536>>
\* low 16 bits of a * b, for 16-bit a and b
MulLo16(a, b) == (((a * (b \div 256)) % 256) * 256 + a * (b % 256)) % 65536
\* Math.imul: the low 32 bits of the product
Imul(a, b) ==
  LET x  == a[2] * (b[2] \div 256)
      y  == a[2] * (b[2] % 256)
      m  == (x % 256) * 256 + y
      ph == (x \div 256) + (m \div 65536)
  IN <<(ph + MulLo16(a[1], b[2]) + MulLo16(a[2], b[1])) % 65536, m % 65536>>

\* --------------------------------------------------- DeterministicRNG
\* The generator's state is a JavaScript number that `next` only ever adds
\* to; it is kept as four 16-bit limbs, least significant first.
RngOfSeed(seed) == <<seed % 65536, seed \div 65536, 0, 0>>

\* this.state += 0x6d2b79f5   (0x6d2b = 27947, 0x79f5 = 31221)
RngAdvance(s) ==
  LET l1 == s[1] + 31221
      l2 == s[2] + 27947 + (l1 \div 65536)
      l3 == s[3] + (l2 \div 65536)
      l4 == s[4] + (l3 \div 65536)
  IN <<l1 % 65536, l2 % 65536, l3 % 65536, l4>>

\* The 32-bit value next() divides by 2^32, computed from the advanced state.
RngOutput(s) ==
  LET t0 == <<s[2], s[1]>>
      t1 == Imul(Xor32(t0, Shr32(t0, 15)), OrSmall(t0, 1))
      t2 == Xor32(t1, Add32(t1, Imul(Xor32(t1, Shr32(t1, 7)), OrSmall(t1, 61))))
  IN Xor32(t2, Shr32(t2, 14))

\* floor(next() * n) for 0 <= n < 2^15, with w the word of next()
ScaleWord(w, n) == ((w[1] * n) + ((w[2] * n) \div 65536)) \div 65536

\* next() < 0.1   (0.1 * 2^32 = 429496729.6 = 6553 * 65536 + 39321.6)
WordBelowTenth(w) == w[1] < 6553 \/ (w[1] = 6553 /\ w[2] <= 39321)
\* next() > 0.5
WordAboveHalf(w) == w[1] > 32768 \/ (w[1] = 32768 /\ w[2] > 0)

\* Fault: the picked element is copied over the current one, not swapped.
RECURSIVE ShuffleOverwrite(_, _, _)
ShuffleOverwrite(arr, currentIndex, s) ==
  IF currentIndex = 0 THEN [array |-> arr, rng |-> s]
  ELSE LET s1 == RngAdvance(s)
           randomIndex == ScaleWord(RngOutput(s1), currentIndex) + 1
           ci == currentIndex
           copied == [arr EXCEPT ![ci] = arr[randomIndex]]
       IN ShuffleOverwrite(copied, currentIndex - 1, s1)

\* shuffle: Fisher-Yates from the end; returns the array and the new state.
RECURSIVE ShuffleFrom(_, _, _)
ShuffleFrom(arr, currentIndex, s) ==
  IF currentIndex = 0 THEN [array |-> arr, rng |-> s]
  ELSE LET s1 == RngAdvance(s)
           randomIndex == ScaleWord(RngOutput(s1), currentIndex) + 1
           ci == currentIndex
           swapped == [arr EXCEPT ![ci] = arr[randomIndex], ![randomIndex] = arr[ci]]
       IN ShuffleFrom(swapped, currentIndex - 1, s1)

Shuffle(arr, s) == ShuffleFrom(arr, Len(arr), s)


\* ------------------------------------------------ experiment presets
\* taxRate is in percent.  salesTax, subsidyRate and moneyPrintingEnabled
\* are read by no mechanism.
BASELINE ==
  [id |-> "baseline_mixed_economy", initialSeed |-> INITIAL_SEED,
   activeMarkets |-> <<"standard_labor_market", "standard_goods_market">>,
   activeInstitutions |-> <<"bond_yield_payout", "standard_bankruptcy",
                            "income_tax", "wealth_tax_stabilizer">>,
   agentBehaviors |-> [t \in {HOUSEHOLD, FIRM, BANK} |->
      CASE t = HOUSEHOLD -> "bounded_rational_household"
        [] t = FIRM -> "heuristic_firm"
        [] OTHER -> "passive_bank"],
   params |-> [taxRate |-> 15, moneyPrintingEnabled |-> FALSE]]

LAISSEZ_FAIRE ==
  [BASELINE EXCEPT !.id = "laissez_faire",
     !.activeInstitutions = <<"bond_yield_payout", "standard_bankruptcy">>,
     !.params = [taxRate |-> 0, moneyPrintingEnabled |-> FALSE]]

WELFARE_STATE ==
  [BASELINE EXCEPT !.id = "welfare_state",
     !.activeInstitutions = <<"bond_yield_payout", "forgiving_bankruptcy", "income_tax",
                              "wealth_tax_stabilizer", "emergency_welfare">>,
     !.params = [taxRate |-> 30, moneyPrintingEnabled |-> TRUE]]

EXPERIMENTS == {BASELINE, LAISSEZ_FAIRE, WELFARE_STATE}

Includes(seq, x) == \E i \in 1..Len(seq) : seq[i] = x

\* --------------------------------------------------------- entity model
\* An agent record carries every field some agent type uses; a field the
\* source leaves undefined for a type is 0 (or NoId) here, which is what the
\* source's `|| 0` reads it as.  priceBeliefs, debt and needsSatisfaction are
\* written at construction and never read or written again; they are left out.
EmptyInventory == [r \in ResourceType |-> 0]
EmptyMemory == [avgRevenue |-> 0, avgProfit |-> 0, avgInventory |-> 0, avgExpenses |-> 0]

BaseAgent(id, type, cash) ==
  [id |-> id, type |-> type, cash |-> cash, bonds |-> 0,
   inventory |-> EmptyInventory, wageExpectation |-> 0, memory |-> EmptyMemory,
   currentUtility |-> 0, active |-> TRUE,
   productionTarget |-> 0, lastProfit |-> 0, lastRevenue |-> 0, salesPrice |-> 0,
   insolvencyStreak |-> 0,
   skillLevel |-> 0, starvationStreak |-> 0, employedAt |-> NoId]

NewFirm(id) ==
  [BaseAgent(id, FIRM, 80000) EXCEPT
     !.inventory[GOODS] = 10, !.wageExpectation = PRICE_LABOR,
     !.productionTarget = 2, !.memory.avgInventory = 1000,
     !.salesPrice = PRICE_CONSUMER_GOODS]

\* initialSkill = 0.8 + rng.next() * 0.4, with w the word of that draw
NewHousehold(id, w) ==
  LET initialSkill == 80 + ScaleWord(w, 40)
  IN [BaseAgent(id, HOUSEHOLD, 15000) EXCEPT
        !.inventory[GOODS] = 2, !.wageExpectation = (PRICE_LABOR * initialSkill) \div 100,
        !.skillLevel = initialSkill, !.currentUtility = 1000]

\* The generator state after the i-th draw from `s`.
RECURSIVE RngAfter(_, _)
RngAfter(s, i) == IF i = 0 THEN s ELSE RngAdvance(RngAfter(s, i - 1))

initializeSimulation(cfg) ==
  LET seed == RngOfSeed(cfg.initialSeed)
      agentOf(id) ==
        IF id = GOVT THEN BaseAgent(GOVT, GOVERNMENT, 500000)
        ELSE IF id = CB THEN BaseAgent(CB, CENTRAL_BANK, 100000000)
        ELSE IF Includes(FirmIds, id) THEN NewFirm(id)
        ELSE IF Includes(BankIds, id) THEN BaseAgent(id, BANK, 1000000)
        ELSE LET i == CHOOSE k \in 1..NumHouseholds : HouseholdIds[k] = id
             IN NewHousehold(id, RngOutput(RngAfter(seed, i)))
  IN [tick |-> 0,
      agents |-> [id \in AgentIds |-> agentOf(id)],
      ledger |-> <<>>,
      metricsHistory |-> <<>>,
      rngState |-> RngAfter(seed, NumHouseholds)]

\* ------------------------------------------------------ the step's store
\* A step works on a context c:
\*   c.cur     the input world state, as its holder still sees it
\*   c.nxt     nextState, the world state being built
\*   c.shared  the ids whose agent object in nxt.agents is the very object
\*             of cur.agents (new Map(currentState.agents) copies the Map,
\*             not the agents)
\*   c.first, c.firstShared   an earlier result of stepping the same input,
\*             and the ids whose object it still has in common with cur
\*   c.rng     the step's generator
\*   c.decided the ids whose behavior was invoked in this step
\*   c.registry   MechanismRegistry, read only
\*   c.warnings, c.invoked   the ids warned about, and the ids of the
\*             institutions applied and markets resolved, in this step
\* A write to an agent object is seen through every reference to it.
SetAgent(c, id, rec) ==
  [c EXCEPT !.nxt.agents[id] = rec,
            !.cur.agents[id] = IF id \in c.shared THEN rec ELSE @,
            !.first.agents[id] =
               IF id \in c.shared /\ id \in c.firstShared THEN rec ELSE @]

Agent(c, id) == c.nxt.agents[id]

\* ----------------------------------------------------- accountingService
\* Fault: the Government is exempt from the solvency check as well.
SovereignExempt(type) == type \in {GOVERNMENT, CENTRAL_BANK}

\* "Central Bank can go negative (print money), others cannot."
SolvencyExempt(type) == type = CENTRAL_BANK

TransferRefused(w, fromId, toId, amount) ==
  \/ amount <= 0
  \/ fromId \notin DOMAIN w.agents
  \/ toId \notin DOMAIN w.agents
  \/ (~SolvencyExempt(w.agents[fromId].type) /\ w.agents[fromId].cash < amount)

\* Fault: the receiver is credited in whole currency units.
CreditRounded(cash, amount) == cash + ((amount \div 100) * 100)

\* Fault: the amount is taken from the sender twice.
DebitTwice(cash, amount) == (cash - amount) - amount

Debit(cash, amount) == cash - amount
Credit(cash, amount) == cash + amount

\* Fault: the entry names the receiver as sender and the sender as receiver.
LedgerEntrySwapped(w, fromId, toId, amount, reason) ==
  [tick |-> w.tick, fromId |-> toId, toId |-> fromId, amount |-> amount, reason |-> reason]

\* Fault: the entry is stamped with the tick of the previous step.
LedgerEntryStale(w, fromId, toId, amount, reason) ==
  [tick |-> w.tick - 1, fromId |-> fromId, toId |-> toId, amount |-> amount, reason |-> reason]

LedgerEntry(w, fromId, toId, amount, reason) ==
  [tick |-> w.tick, fromId |-> fromId, toId |-> toId, amount |-> amount, reason |-> reason]

\* Fault: a refused transfer is logged all the same.
TransferMoneyLogsRefusal(c, fromId, toId, amount, reason) ==
  IF TransferRefused(c.nxt, fromId, toId, amount)
  THEN [c EXCEPT !.nxt.ledger = Append(@, LedgerEntry(c.nxt, fromId, toId, amount, reason))]
  ELSE LET c1 == SetAgent(c, fromId,
                    [Agent(c, fromId) EXCEPT !.cash = Debit(@, amount)])
           c2 == SetAgent(c1, toId,
                    [Agent(c1, toId) EXCEPT !.cash = Credit(@, amount)])
       IN [c2 EXCEPT !.nxt.ledger =
                Append(@, LedgerEntry(c.nxt, fromId, toId, amount, reason))]

\* The context after transferMoney(state = c.nxt, ...).
TransferMoney(c, fromId, toId, amount, reason) ==
  IF TransferRefused(c.nxt, fromId, toId, amount) THEN c
  ELSE LET c1 == SetAgent(c, fromId,
                    [Agent(c, fromId) EXCEPT !.cash = Debit(@, amount)])
           c2 == SetAgent(c1, toId,
                    [Agent(c1, toId) EXCEPT !.cash = Credit(@, amount)])
       IN [c2 EXCEPT !.nxt.ledger =
                Append(@, LedgerEntry(c.nxt, fromId, toId, amount, reason))]

\* What transferMoney returns: the entry, or null.
Null == [tick |-> -1]
TransferResult(c, fromId, toId, amount, reason) ==
  IF TransferRefused(c.nxt, fromId, toId, amount) THEN Null
  ELSE LedgerEntry(c.nxt, fromId, toId, amount, reason)

\* Fault: the sender's holding is not compared with the amount.
ResourceRefusedUnchecked(w, fromId, toId, resource, amount) ==
  \/ amount <= 0
  \/ fromId \notin DOMAIN w.agents
  \/ toId \notin DOMAIN w.agents

ResourceRefused(w, fromId, toId, resource, amount) ==
  \/ amount <= 0
  \/ fromId \notin DOMAIN w.agents
  \/ toId \notin DOMAIN w.agents
  \/ w.agents[fromId].inventory[resource] < amount

\* Fault: the unit leaves the giver and reaches nobody.
TransferResourceLost(c, fromId, toId, resource, amount) ==
  IF ResourceRefused(c.nxt, fromId, toId, resource, amount) THEN c
  ELSE SetAgent(c, fromId, [Agent(c, fromId) EXCEPT !.inventory[resource] = @ - amount])

TransferResource(c, fromId, toId, resource, amount) ==
  IF ResourceRefused(c.nxt, fromId, toId, resource, amount) THEN c
  ELSE LET c1 == SetAgent(c, fromId,
                    [Agent(c, fromId) EXCEPT !.inventory[resource] = @ - amount])
       IN SetAgent(c1, toId,
                    [Agent(c1, toId) EXCEPT !.inventory[resource] = @ + amount])

\* validateSystemInvariants: the sum of cash over every agent but the
\* central bank.
RECURSIVE SumCashFrom(_, _, _)
SumCashFrom(agents, order, i) ==
  IF i > Len(order) THEN 0
  ELSE (IF agents[order[i]].type = CENTRAL_BANK THEN 0 ELSE agents[order[i]].cash)
       + SumCashFrom(agents, order, i + 1)

\* Fault: the Government's cash is left out of the money supply as well.
validateWithoutGovernment(w) ==
  LET f[i \in 0..Len(AgentOrder)] ==
        IF i = 0 THEN 0
        ELSE f[i - 1] + (IF w.agents[AgentOrder[i]].type \in {GOVERNMENT, CENTRAL_BANK}
                         THEN 0 ELSE w.agents[AgentOrder[i]].cash)
  IN f[Len(AgentOrder)]

validateSystemInvariants(w) == SumCashFrom(w.agents, AgentOrder, 1)

\* ------------------------------------------------------------- helpers
\* seq.forEach over a context: Op(c, x) for each x of seq, in order; an
\* iteration starts from the completed result of the one before it.
ForEach(Op(_, _), c, seq) ==
  LET f[i \in 0..Len(seq)] ==
        IF i = 0 THEN c
        ELSE LET before == f[i - 1]
             IN IF before = before THEN Op(before, seq[i]) ELSE before
  IN f[Len(seq)]

SumAmounts(entries) ==
  LET f[i \in 0..Len(entries)] == IF i = 0 THEN 0 ELSE f[i - 1] + entries[i].amount
  IN f[Len(entries)]

CurrentTickTransactions(w) == SelectSeq(w.ledger, LAMBDA l : l.tick = w.tick)

\* Array.from(state.agents.values()).filter(type and active), as ids
ActiveOfType(w, type) ==
  SelectSeq(AgentOrder, LAMBDA id : w.agents[id].type = type /\ w.agents[id].active)
ActiveFirms(w) == ActiveOfType(w, FIRM)
ActiveHouseholds(w) == ActiveOfType(w, HOUSEHOLD)

\* ---------------------------------------------------------- institutions
\* Fault: interest is credited to the holder directly, not by transferMoney.
BondYieldDirect(c0) ==
  LET pay(c, id) ==
        IF Agent(c, id).bonds > 0
        THEN SetAgent(c, id, [Agent(c, id) EXCEPT !.cash = @ + ((Agent(c, id).bonds * 5) \div 1000)])
        ELSE c
  IN ForEach(pay, c0, AgentOrder)

\* Fault: a liquidated firm keeps its staff on the books.
LiquidateKeepStaff(c0, firmId) ==
  LET c1 == SetAgent(c0, firmId, [Agent(c0, firmId) EXCEPT !.active = FALSE])
  IN IF Agent(c1, firmId).cash > 0
     THEN TransferMoney(c1, firmId, GOVT, Agent(c1, firmId).cash, "BANKRUPTCY_LIQUIDATION")
     ELSE c1

BondYieldPayout(c0) ==
  LET pay(c, id) ==
        IF Agent(c, id).bonds > 0
        THEN TransferMoney(c, GOVT, id, (Agent(c, id).bonds * 5) \div 1000, "BOND_INTEREST")
        ELSE c
  IN ForEach(pay, c0, AgentOrder)

\* Fault: liquidation hands over half of the firm's cash.
LiquidateHalf(c0, firmId) ==
  LET c1 == SetAgent(c0, firmId, [Agent(c0, firmId) EXCEPT !.active = FALSE])
      fire(c, other) ==
        IF Agent(c, other).employedAt = firmId
        THEN SetAgent(c, other, [Agent(c, other) EXCEPT !.employedAt = NoId])
        ELSE c
      c2 == ForEach(fire, c1, AgentOrder)
  IN IF Agent(c2, firmId).cash > 0
     THEN TransferMoney(c2, firmId, GOVT, Agent(c2, firmId).cash \div 2, "BANKRUPTCY_LIQUIDATION")
     ELSE c2

\* StandardBankruptcy and ForgivingBankruptcy differ in the threshold only.
Liquidate(c0, firmId) ==
  LET c1 == SetAgent(c0, firmId, [Agent(c0, firmId) EXCEPT !.active = FALSE])
      fire(c, other) ==
        IF Agent(c, other).employedAt = firmId
        THEN SetAgent(c, other, [Agent(c, other) EXCEPT !.employedAt = NoId])
        ELSE c
      c2 == ForEach(fire, c1, AgentOrder)
  IN IF Agent(c2, firmId).cash > 0
     THEN TransferMoney(c2, firmId, GOVT, Agent(c2, firmId).cash, "BANKRUPTCY_LIQUIDATION")
     ELSE c2

\* Fault: liquidation waits until the streak has passed the threshold.
BankruptcyLate(c0, threshold) ==
  LET sweep(c, id) ==
        IF /\ Agent(c, id).type = FIRM
           /\ Agent(c, id).active
           /\ Agent(c, id).insolvencyStreak > threshold
        THEN Liquidate(c, id)
        ELSE c
  IN ForEach(sweep, c0, AgentOrder)

Bankruptcy(c0, threshold) ==
  LET sweep(c, id) ==
        IF /\ Agent(c, id).type = FIRM
           /\ Agent(c, id).active
           /\ Agent(c, id).insolvencyStreak >= threshold
        THEN Liquidate(c, id)
        ELSE c
  IN ForEach(sweep, c0, AgentOrder)

IncomeTax(c0, cfg) ==
  LET taxRate == cfg.params.taxRate
      txns == CurrentTickTransactions(c0.nxt)
      tax(c, id) ==
        IF Agent(c, id).type = HOUSEHOLD /\ Agent(c, id).active
        THEN LET income == SumAmounts(SelectSeq(txns,
                              LAMBDA l : l.toId = id /\ l.reason = "WAGE_PAYMENT"))
                 taxAmount == (income * taxRate) \div 100
             IN IF income > 0 /\ taxAmount > 0
                THEN TransferMoney(c, id, GOVT, taxAmount, "INCOME_TAX")
                ELSE c
        ELSE c
  IN IF taxRate <= 0 THEN c0 ELSE ForEach(tax, c0, AgentOrder)

WealthTaxStabilizer(c0) ==
  LET levy(c, id) ==
        LET agent == Agent(c, id)
            tax == ((agent.cash - WEALTH_TAX_THRESHOLD) * 2) \div 100
        IN IF /\ agent.active
              /\ agent.type \notin {GOVERNMENT, CENTRAL_BANK}
              /\ agent.cash > WEALTH_TAX_THRESHOLD
              /\ (agent.cash - WEALTH_TAX_THRESHOLD) * 2 > 10000
           THEN TransferMoney(c, id, GOVT, tax, "WEALTH_TAX")
           ELSE c
  IN ForEach(levy, c0, AgentOrder)

\* Fault: the top-up stops one cent short of the estimated food cost.
EmergencyWelfareShort(c0) ==
  LET estimatedFoodCost == 1000
      top(c, id) ==
        LET hh == Agent(c, id)
        IN IF hh.type = HOUSEHOLD /\ hh.active /\ hh.cash < estimatedFoodCost
           THEN TransferMoney(c, GOVT, id, (estimatedFoodCost - hh.cash) - 1, "EMERGENCY_WELFARE")
           ELSE c
  IN ForEach(top, c0, AgentOrder)

EmergencyWelfare(c0) ==
  LET estimatedFoodCost == 1000
      top(c, id) ==
        LET hh == Agent(c, id)
        IN IF hh.type = HOUSEHOLD /\ hh.active /\ hh.cash < estimatedFoodCost
           THEN TransferMoney(c, GOVT, id, estimatedFoodCost - hh.cash, "EMERGENCY_WELFARE")
           ELSE c
  IN ForEach(top, c0, AgentOrder)

\* The registry as shipped.
MechanismRegistry ==
  [Markets |-> {"standard_labor_market", "standard_goods_market"},
   Behaviors |-> {"bounded_rational_household", "heuristic_firm", "passive_bank"},
   Institutions |-> {"bond_yield_payout", "standard_bankruptcy", "forgiving_bankruptcy",
                     "income_tax", "wealth_tax_stabilizer", "emergency_welfare"}]

\* MechanismRegistry.Institutions[instId].apply(state); what an institution
\* registered later does to the world is not known to the kernel and is
\* left out.
ApplyInstitution(c, cfg, instId) ==
  CASE instId = "bond_yield_payout" -> BondYieldPayout(c)
    [] instId = "standard_bankruptcy" -> Bankruptcy(c, INSOLVENCY_THRESHOLD)
    [] instId = "forgiving_bankruptcy" -> Bankruptcy(c, FORGIVING_THRESHOLD)
    [] instId = "income_tax" -> IncomeTax(c, cfg)
    [] instId = "wealth_tax_stabilizer" -> WealthTaxStabilizer(c)
    [] instId = "emergency_welfare" -> EmergencyWelfare(c)
    [] OTHER -> c

RunInstitutions(c0, cfg, instIds) ==
  LET run(c, instId) ==
        IF Includes(cfg.activeInstitutions, instId) /\ instId \in c.registry.Institutions
        THEN ApplyInstitution([c EXCEPT !.invoked = Append(@, instId)], cfg, instId)
        ELSE c
  IN ForEach(run, c0, instIds)

\* Fault: bond interest is paid with the post-tick institutions as well.
fiscalThenBondYield ==
  <<"income_tax", "wealth_tax_stabilizer", "emergency_welfare", "bond_yield_payout">>

maintenanceInstitutions == <<"bond_yield_payout", "standard_bankruptcy", "forgiving_bankruptcy">>
fiscalInstitutions == <<"income_tax", "wealth_tax_stabilizer", "emergency_welfare">>

\* -------------------------------------------------------------- behaviors
\* Math.log(n + 1) * 10 in hundredths, for the food stocks a household can
\* hold (it eats one unit and buys at most one unit per tick).
LogTimesTen(n) ==
  LET table == <<0, 693, 1098, 1386, 1609, 1791, 1945, 2079, 2197, 2302>>
  IN table[Min(n, 9) + 1]

\* cpi of the last snapshot, `|| 10` when there is none (or it is 0)
LastCpiOr10(w) ==
  LET n == Len(w.metricsHistory)
  IN IF n > 0 /\ w.metricsHistory[n].cpi # 0 THEN w.metricsHistory[n].cpi ELSE 1000

\* BoundedRationalHousehold.decide(agent, state, rng)
HouseholdDecide(c0, id) ==
  LET a0 == Agent(c0, id)
      employed == a0.employedAt # NoId
      skill0 == IF a0.skillLevel = 0 THEN 100 ELSE a0.skillLevel
      skill == IF employed THEN Min(200, skill0 + 1) ELSE Max(50, skill0 - 2)
      foodAvailable == a0.inventory[GOODS]
      needed == FOOD_CONSUMPTION
      actualConsumption == Min(foodAvailable, needed)
      streak == IF actualConsumption < needed THEN a0.starvationStreak + 1 ELSE 0
      utility == LogTimesTen(foodAvailable) + (IF employed THEN 0 ELSE 200)
      draws == employed /\ utility > 500
      rng1 == IF draws THEN RngAdvance(c0.rng) ELSE c0.rng
      decayFactor == IF streak >= STARVATION_THRESHOLD THEN 80 ELSE 95
      wage == IF ~employed THEN Max(100, (a0.wageExpectation * decayFactor) \div 100)
              ELSE IF draws
                   THEN (a0.wageExpectation * (10100 + ScaleWord(RngOutput(rng1), 200))) \div 10000
                   ELSE a0.wageExpectation
      a1 == [a0 EXCEPT !.skillLevel = skill,
                       !.inventory[GOODS] = @ - actualConsumption,
                       !.starvationStreak = streak,
                       !.currentUtility = utility,
                       !.wageExpectation = wage]
      c1 == [SetAgent(c0, id, a1) EXCEPT !.rng = rng1]
      estimatedCostOfLiving == LastCpiOr10(c0.nxt) * needed
      safetyBuffer == estimatedCostOfLiving * 3
      investmentAmount == ((a1.cash - safetyBuffer) * 30) \div 100
      liquidationAmount == Min(a1.bonds, estimatedCostOfLiving - a1.cash)
  IN IF a1.cash > safetyBuffer
     THEN LET c2 == TransferMoney(c1, id, GOVT, investmentAmount, "BOND_PURCHASE")
          IN IF TransferRefused(c1.nxt, id, GOVT, investmentAmount) THEN c2
             ELSE SetAgent(c2, id, [Agent(c2, id) EXCEPT !.bonds = @ + investmentAmount])
     ELSE IF a1.cash < estimatedCostOfLiving /\ a1.bonds > 0
     THEN LET c2 == TransferMoney(c1, GOVT, id, liquidationAmount, "BOND_REDEMPTION")
          IN IF TransferRefused(c1.nxt, GOVT, id, liquidationAmount) THEN c2
             ELSE SetAgent(c2, id, [Agent(c2, id) EXCEPT !.bonds = @ - liquidationAmount])
     ELSE c1

\* updateEMA with EMA_ALPHA = 0.2
updateEMA(currentEMA, newValue) == (currentEMA * 8 + newValue * 2) \div 10

\* HeuristicFirm.decide(agent, state, rng)
FirmDecide(c0, id) ==
  LET a0 == Agent(c0, id)
      inventory == a0.inventory[GOODS]
      avgProfit == updateEMA(a0.memory.avgProfit, a0.lastProfit)
      avgInventory == updateEMA(a0.memory.avgInventory, inventory * 100)
      streak == IF a0.cash < FIRM_MIN_CASH \/ avgProfit < -500
                THEN a0.insolvencyStreak + 1
                ELSE Max(0, a0.insolvencyStreak - 1)
      currentPrice == IF a0.salesPrice = 0 THEN 1000 ELSE a0.salesPrice
      targetOr1 == IF a0.productionTarget = 0 THEN 1 ELSE a0.productionTarget
      newPrice ==
        IF inventory > targetOr1 * FIRE_SALE_INVENTORY_MULT THEN (currentPrice * 80) \div 100
        ELSE IF avgInventory > 300 * targetOr1 THEN (currentPrice * 98) \div 100
        ELSE IF avgInventory * 2 < 100 * targetOr1 THEN (currentPrice * 102) \div 100
        ELSE currentPrice
      planned ==
        IF avgInventory > targetOr1 * 200 THEN Max(1, targetOr1 - 1)
        ELSE IF avgInventory * 2 < targetOr1 * 100 /\ a0.cash > 20000 THEN targetOr1 + 1
        ELSE targetOr1
      rng1 == RngAdvance(c0.rng)
      noisy == WordBelowTenth(RngOutput(rng1))
      rng2 == IF noisy THEN RngAdvance(rng1) ELSE rng1
      rawTarget ==
        IF noisy THEN planned + (IF WordAboveHalf(RngOutput(rng2)) THEN 1 ELSE -1)
        ELSE planned
      a1 == [a0 EXCEPT !.memory.avgProfit = avgProfit,
                       !.memory.avgInventory = avgInventory,
                       !.insolvencyStreak = streak,
                       !.salesPrice = Max(10, newPrice),
                       !.productionTarget = Max(0, rawTarget)]
  IN [SetAgent(c0, id, a1) EXCEPT !.rng = rng2]

\* PassiveBank.decide
BankDecide(c0, id) == c0

\* MechanismRegistry.Behaviors[behaviorId].decide(agent, state, rng)
Decide(c, behaviorId, id) ==
  CASE behaviorId = "bounded_rational_household" -> HouseholdDecide(c, id)
    [] behaviorId = "heuristic_firm" -> FirmDecide(c, id)
    [] behaviorId = "passive_bank" -> BankDecide(c, id)
    [] OTHER -> c

RegisteredBehaviors == MechanismRegistry.Behaviors

BehaviorIdOf(cfg, type) ==
  IF type \in DOMAIN cfg.agentBehaviors THEN cfg.agentBehaviors[type] ELSE NoId

\* One iteration of the cognition loop: an inactive agent is skipped; an
\* active one is replaced in nextState.agents by a copy (with its own
\* inventory and memory), and its behavior, if registered, decides on the copy.
CognitionOf(cfg, c, id) ==
  IF ~Agent(c, id).active THEN c
  ELSE LET c1 == [c EXCEPT !.shared = @ \ {id}]
           behaviorId == BehaviorIdOf(cfg, Agent(c, id).type)
       IN IF behaviorId \in c.registry.Behaviors
          THEN Decide([c1 EXCEPT !.decided = @ \cup {id}], behaviorId, id)
          ELSE c1

\* The cognition loop run over the agents in a given order.
CognitionIn(c0, cfg, order) ==
  LET step(c, id) == CognitionOf(cfg, c, id)
  IN ForEach(step, c0, order)

Cognition(c0, cfg) ==
  LET step(c, id) == CognitionOf(cfg, c, id)
  IN ForEach(step, c0, AgentOrder)

\* ---------------------------------------------------------------- markets
\* Fault: the staff a firm keeps is paid the wage offer as well.
HireAndPayStaff(c0, firmId, shuffledHouseholds) ==
  LET firm == Agent(c0, firmId)
      laborNeeded == firm.productionTarget
      wageOffer == firm.wageExpectation
      workers == SelectSeq(shuffledHouseholds, LAMBDA h : Agent(c0, h).employedAt = firmId)
      surplus == Len(workers) > laborNeeded
      toFire == IF surplus THEN SubSeq(workers, 1, Len(workers) - laborNeeded) ELSE <<>>
      fire(c, w) == SetAgent(c, w, [Agent(c, w) EXCEPT !.employedAt = NoId])
      c1 == ForEach(fire, c0, toFire)
      pay(c, w) ==
        IF Agent(c, w).employedAt = firmId
        THEN TransferMoney(c, firmId, w, wageOffer, "WAGE_PAYMENT") ELSE c
      c2 == ForEach(pay, c1, workers)
      hire(st, hh) ==
        IF st.laborHired >= laborNeeded THEN st
        ELSE IF Agent(st.c, hh).employedAt # NoId THEN st
        ELSE IF wageOffer >= Agent(st.c, hh).wageExpectation
                /\ ~TransferRefused(st.c.nxt, firmId, hh, wageOffer)
        THEN LET paid == TransferMoney(st.c, firmId, hh, wageOffer, "WAGE_PAYMENT")
             IN [c |-> SetAgent(paid, hh, [Agent(paid, hh) EXCEPT !.employedAt = firmId]),
                 laborHired |-> st.laborHired + 1]
        ELSE st
  IN ForEach(hire, [c |-> c2, laborHired |-> IF surplus THEN laborNeeded ELSE Len(workers)],
             shuffledHouseholds).c

\* Fault: the offer is not compared with the reservation wage.
HireAnyone(c0, firmId, shuffledHouseholds) ==
  LET firm == Agent(c0, firmId)
      laborNeeded == firm.productionTarget
      wageOffer == firm.wageExpectation
      staff == Len(SelectSeq(shuffledHouseholds, LAMBDA h : Agent(c0, h).employedAt = firmId))
      hire(st, hh) ==
        IF st.laborHired >= laborNeeded THEN st
        ELSE IF Agent(st.c, hh).employedAt # NoId THEN st
        ELSE IF ~TransferRefused(st.c.nxt, firmId, hh, wageOffer)
        THEN LET paid == TransferMoney(st.c, firmId, hh, wageOffer, "WAGE_PAYMENT")
             IN [c |-> SetAgent(paid, hh, [Agent(paid, hh) EXCEPT !.employedAt = firmId]),
                 laborHired |-> st.laborHired + 1]
        ELSE st
  IN ForEach(hire, [c |-> c0, laborHired |-> staff], shuffledHouseholds).c

\* Fault: hiring goes on past the firm's need.
HireUncapped(c0, firmId, shuffledHouseholds) ==
  LET firm == Agent(c0, firmId)
      wageOffer == firm.wageExpectation
      hire(c, hh) ==
        IF Agent(c, hh).employedAt # NoId THEN c
        ELSE IF wageOffer >= Agent(c, hh).wageExpectation
                /\ ~TransferRefused(c.nxt, firmId, hh, wageOffer)
        THEN LET paid == TransferMoney(c, firmId, hh, wageOffer, "WAGE_PAYMENT")
             IN SetAgent(paid, hh, [Agent(paid, hh) EXCEPT !.employedAt = firmId])
        ELSE c
  IN ForEach(hire, c0, shuffledHouseholds)

\* StandardLaborMarket.resolve(state, rng)
HireAndFire(c0, firmId, shuffledHouseholds) ==
  LET firm == Agent(c0, firmId)
      laborNeeded == firm.productionTarget
      wageOffer == firm.wageExpectation
      workers == SelectSeq(shuffledHouseholds, LAMBDA h : Agent(c0, h).employedAt = firmId)
      surplus == Len(workers) > laborNeeded
      toFire == IF surplus THEN SubSeq(workers, 1, Len(workers) - laborNeeded) ELSE <<>>
      fire(c, w) == SetAgent(c, w, [Agent(c, w) EXCEPT !.employedAt = NoId])
      c1 == ForEach(fire, c0, toFire)
      start == [c |-> c1, laborHired |-> IF surplus THEN laborNeeded ELSE Len(workers)]
      \* `break` once the need is filled; `continue` past the employed
      hire(st, hh) ==
        IF st.laborHired >= laborNeeded THEN st
        ELSE IF Agent(st.c, hh).employedAt # NoId THEN st
        ELSE IF wageOffer >= Agent(st.c, hh).wageExpectation
                /\ ~TransferRefused(st.c.nxt, firmId, hh, wageOffer)
        THEN LET paid == TransferMoney(st.c, firmId, hh, wageOffer, "WAGE_PAYMENT")
             IN [c |-> SetAgent(paid, hh, [Agent(paid, hh) EXCEPT !.employedAt = firmId]),
                 laborHired |-> st.laborHired + 1]
        ELSE st
  IN ForEach(hire, start, shuffledHouseholds).c

Produce(c0, firmId, households) ==
  LET employees == SelectSeq(households, LAMBDA h : Agent(c0, h).employedAt = firmId)
      skillOf(h) == IF Agent(c0, h).skillLevel = 0 THEN 100 ELSE Agent(c0, h).skillLevel
      total[i \in 0..Len(employees)] ==
        IF i = 0 THEN 0 ELSE total[i - 1] + skillOf(employees[i])
      output == (total[Len(employees)] * 2) \div 100
  IN SetAgent(c0, firmId, [Agent(c0, firmId) EXCEPT !.inventory[GOODS] = @ + output])

StandardLaborMarket(c0) ==
  LET firms == ActiveFirms(c0.nxt)
      households == ActiveHouseholds(c0.nxt)
      detach(c, hh) ==
        LET employer == Agent(c, hh).employedAt
        IN IF employer # NoId /\ employer \in DOMAIN c.nxt.agents
              /\ ~Agent(c, employer).active
           THEN SetAgent(c, hh, [Agent(c, hh) EXCEPT !.employedAt = NoId])
           ELSE c
      c1 == ForEach(detach, c0, households)
      sh == Shuffle(households, c1.rng)
      c2 == [c1 EXCEPT !.rng = sh.rng]
      match(c, firmId) == HireAndFire(c, firmId, sh.array)
      c3 == ForEach(match, c2, firms)
      produce(c, firmId) == Produce(c, firmId, households)
  IN ForEach(produce, c3, firms)

\* Array.prototype.sort with (a.salesPrice || 0) - (b.salesPrice || 0): stable
RECURSIVE InsertByPrice(_, _, _)
InsertByPrice(sorted, x, price) ==
  IF sorted = <<>> THEN <<x>>
  ELSE IF price[sorted[Len(sorted)]] <= price[x] THEN Append(sorted, x)
  ELSE Append(InsertByPrice(SubSeq(sorted, 1, Len(sorted) - 1), x, price), sorted[Len(sorted)])

\* Fault: the stocked firms are visited in shuffled order.
SortSkipped(seq, price) == seq

SortByPrice(seq, price) ==
  LET f[i \in 0..Len(seq)] == IF i = 0 THEN <<>> ELSE InsertByPrice(f[i - 1], seq[i], price)
  IN f[Len(seq)]

\* One household's turn in StandardGoodsMarket.resolve
Shop(c0, hh, shuffledFirms) ==
  LET amountNeeded == FOOD_CONSUMPTION
      stocked == SelectSeq(shuffledFirms, LAMBDA f : Agent(c0, f).inventory[GOODS] > 0)
      availableFirms == SortByPrice(stocked, [f \in AgentIds |-> c0.nxt.agents[f].salesPrice])
      buy(st, firmId) ==
        LET price == IF Agent(st.c, firmId).salesPrice = 0 THEN 1000
                     ELSE Agent(st.c, firmId).salesPrice
        IN IF st.amountBought >= amountNeeded THEN st
           ELSE IF Agent(st.c, hh).cash >= price
                   /\ ~TransferRefused(st.c.nxt, hh, firmId, price)
           THEN LET paid == TransferMoney(st.c, hh, firmId, price, "PURCHASE_GOODS")
                    moved == TransferResource(paid, firmId, hh, GOODS, 1)
                IN [c |-> SetAgent(moved, firmId,
                             [Agent(moved, firmId) EXCEPT !.lastRevenue = @ + price]),
                    amountBought |-> st.amountBought + 1]
           ELSE st
  IN ForEach(buy, [c |-> c0, amountBought |-> 0], availableFirms).c

StandardGoodsMarket(c0) ==
  LET firms == ActiveFirms(c0.nxt)
      households == ActiveHouseholds(c0.nxt)
      sh == Shuffle(firms, c0.rng)
      c1 == [c0 EXCEPT !.rng = sh.rng]
      shop(c, hh) == Shop(c, hh, sh.array)
  IN ForEach(shop, c1, households)

\* MechanismRegistry.Markets[marketId].resolve(state, rng); an unknown id is
\* warned about and skipped.
ResolveMarket(c, marketId) ==
  IF marketId \in c.registry.Markets
  THEN LET c1 == [c EXCEPT !.invoked = Append(@, marketId)]
       IN CASE marketId = "standard_labor_market" -> StandardLaborMarket(c1)
            [] marketId = "standard_goods_market" -> StandardGoodsMarket(c1)
            [] OTHER -> c1
  ELSE [c EXCEPT !.warnings = Append(@, marketId)]

\* ------------------------------------------------------- metrics, cleanup
\* Fault: without trades the cpi falls back to the initial price.
MetricsFallbackInitial(w) ==
  LET txns == CurrentTickTransactions(w)
      salesTxns == SelectSeq(txns, LAMBDA t : t.reason = "PURCHASE_GOODS")
      gdp == SumAmounts(salesTxns)
      n == Len(w.metricsHistory)
      prevCpi == IF n > 0 THEN w.metricsHistory[n].cpi ELSE PRICE_CONSUMER_GOODS
      households == ActiveHouseholds(w)
      unemployedCount == Len(SelectSeq(households, LAMBDA h : w.agents[h].employedAt = NoId))
      wageTxns == SelectSeq(txns, LAMBDA t : t.reason = "WAGE_PAYMENT")
  IN [tick |-> w.tick,
      gdp |-> gdp,
      cpi |-> IF Len(salesTxns) > 0 THEN gdp \div Len(salesTxns) ELSE PRICE_CONSUMER_GOODS,
      \* in hundredths of a percent
      unemploymentRate |-> IF Len(households) > 0
                           THEN (unemployedCount * 10000) \div Len(households) ELSE 0,
      moneySupply |-> validateSystemInvariants(w),
      transactionCount |-> Len(txns),
      avgWage |-> IF Len(wageTxns) > 0 THEN SumAmounts(wageTxns) \div Len(wageTxns)
                  ELSE IF n > 0 THEN w.metricsHistory[n].avgWage ELSE 0,
      activeFirms |-> Len(ActiveFirms(w))]

Metrics(w) ==
  LET txns == CurrentTickTransactions(w)
      salesTxns == SelectSeq(txns, LAMBDA t : t.reason = "PURCHASE_GOODS")
      gdp == SumAmounts(salesTxns)
      n == Len(w.metricsHistory)
      prevCpi == IF n > 0 THEN w.metricsHistory[n].cpi ELSE PRICE_CONSUMER_GOODS
      households == ActiveHouseholds(w)
      unemployedCount == Len(SelectSeq(households, LAMBDA h : w.agents[h].employedAt = NoId))
      wageTxns == SelectSeq(txns, LAMBDA t : t.reason = "WAGE_PAYMENT")
  IN [tick |-> w.tick,
      gdp |-> gdp,
      cpi |-> IF Len(salesTxns) > 0 THEN gdp \div Len(salesTxns) ELSE prevCpi,
      \* in hundredths of a percent
      unemploymentRate |-> IF Len(households) > 0
                           THEN (unemployedCount * 10000) \div Len(households) ELSE 0,
      moneySupply |-> validateSystemInvariants(w),
      transactionCount |-> Len(txns),
      avgWage |-> IF Len(wageTxns) > 0 THEN SumAmounts(wageTxns) \div Len(wageTxns)
                  ELSE IF n > 0 THEN w.metricsHistory[n].avgWage ELSE 0,
      activeFirms |-> Len(ActiveFirms(w))]

\* Fault: the ledger is never pruned.
CleanupKeepsLedger(c0) ==
  LET firms == ActiveFirms(c0.nxt)
      roll(c, f) ==
        LET expenses == SumAmounts(SelectSeq(c.nxt.ledger,
                           LAMBDA l : l.tick = c.nxt.tick /\ l.fromId = f))
            revenue == Agent(c, f).lastRevenue
        IN SetAgent(c, f, [Agent(c, f) EXCEPT !.lastProfit = revenue - expenses,
                                              !.lastRevenue = 0])
      c1 == ForEach(roll, c0, firms)
  IN [c1 EXCEPT !.nxt.rngState = c1.rng]

\* Fault: the generator's state is not written back to the world state.
CleanupDropsRng(c0) ==
  LET firms == ActiveFirms(c0.nxt)
      roll(c, f) ==
        LET expenses == SumAmounts(SelectSeq(c.nxt.ledger,
                           LAMBDA l : l.tick = c.nxt.tick /\ l.fromId = f))
            revenue == Agent(c, f).lastRevenue
        IN SetAgent(c, f, [Agent(c, f) EXCEPT !.lastProfit = revenue - expenses,
                                              !.lastRevenue = 0])
      c1 == ForEach(roll, c0, firms)
      n == Len(c1.nxt.ledger)
  IN [c1 EXCEPT !.nxt.ledger = IF n > MAX_LEDGER_ITEMS
                               THEN SubSeq(@, n - MAX_LEDGER_ITEMS + 1, n) ELSE @]

\* Fault: the revenue accumulator is carried into the next tick.
CleanupKeepsRevenue(c0) ==
  LET firms == ActiveFirms(c0.nxt)
      roll(c, f) ==
        LET expenses == SumAmounts(SelectSeq(c.nxt.ledger,
                           LAMBDA l : l.tick = c.nxt.tick /\ l.fromId = f))
        IN SetAgent(c, f, [Agent(c, f) EXCEPT !.lastProfit = Agent(c, f).lastRevenue - expenses])
      c1 == ForEach(roll, c0, firms)
      n == Len(c1.nxt.ledger)
  IN [c1 EXCEPT !.nxt.ledger = IF n > MAX_LEDGER_ITEMS
                               THEN SubSeq(@, n - MAX_LEDGER_ITEMS + 1, n) ELSE @,
                !.nxt.rngState = c1.rng]

\* Accounting cleanup, ledger pruning and the generator's state.
Cleanup(c0) ==
  LET firms == ActiveFirms(c0.nxt)
      roll(c, f) ==
        LET expenses == SumAmounts(SelectSeq(c.nxt.ledger,
                           LAMBDA l : l.tick = c.nxt.tick /\ l.fromId = f))
            revenue == Agent(c, f).lastRevenue
        IN SetAgent(c, f, [Agent(c, f) EXCEPT !.lastProfit = revenue - expenses,
                                              !.lastRevenue = 0])
      c1 == ForEach(roll, c0, firms)
      n == Len(c1.nxt.ledger)
  IN [c1 EXCEPT !.nxt.ledger = IF n > MAX_LEDGER_ITEMS
                               THEN SubSeq(@, n - MAX_LEDGER_ITEMS + 1, n) ELSE @,
                !.nxt.rngState = c1.rng]

\* ----------------------------------------------------------- the machine
VARIABLES
  config,       \* the experiment preset the world was built from
  cur,          \* the world state the caller holds (the argument of runTick)
  nxt,          \* nextState of the running step; its result once pc = "done"
  shared,       \* ids whose agent object nxt.agents has in common with cur.agents
  first,        \* the result of an earlier runTick(cur), kept by the caller
  firstShared,  \* ids whose agent object first.agents has in common with cur.agents
  rng,          \* the running step's generator
  decided,      \* ids whose behavior the running step has invoked
  pc,           \* position in runTick
  mi,           \* index of the next market in config.activeMarkets
  snap,         \* value of the argument when the running step was called
  replayed,     \* the caller has called runTick a second time on the same argument
  call,         \* accounting harness: the last transferMoney call
  registry,     \* MechanismRegistry: the ids registered, by family
  warnings,     \* ids the running step has warned about (console.warn)
  invoked       \* ids of the institutions applied and markets resolved by the running step

vars == <<config, cur, nxt, shared, first, firstShared, rng, decided, pc, mi,
          snap, replayed, call, registry, warnings, invoked>>

Ctx == [cur |-> cur, nxt |-> nxt, shared |-> shared, first |-> first,
        firstShared |-> firstShared, rng |-> rng, decided |-> decided,
        registry |-> registry, warnings |-> warnings, invoked |-> invoked]

Store(c) ==
  /\ cur' = c.cur
  /\ nxt' = c.nxt
  /\ shared' = c.shared
  /\ first' = c.first
  /\ firstShared' = c.firstShared
  /\ rng' = c.rng
  /\ decided' = c.decided
  /\ registry' = c.registry
  /\ warnings' = c.warnings
  /\ invoked' = c.invoked

NoCall == [made |-> FALSE, n |-> 0]

Init ==
  /\ config \in EXPERIMENTS
  /\ cur = initializeSimulation(config)
  /\ nxt = cur
  /\ shared = {}
  /\ first = cur
  /\ firstShared = {}
  /\ rng = cur.rngState
  /\ decided = {}
  /\ pc = "idle"
  /\ mi = 1
  /\ snap = cur
  /\ replayed = FALSE
  /\ call = NoCall
  /\ registry = MechanismRegistry
  /\ warnings = <<>>
  /\ invoked = <<>>

\* Fault: the clone keeps the input's tick.
BeginTickSameTick ==
  /\ pc = "idle"
  /\ pc' = "maintenance"
  /\ snap' = cur
  /\ nxt' = cur
  /\ shared' = AgentIds
  /\ rng' = cur.rngState
  /\ decided' = {}
  /\ warnings' = <<>>
  /\ invoked' = <<>>
  /\ UNCHANGED <<config, cur, first, firstShared, mi, replayed, call, registry>>

\* runTick, entry: the generator is rebuilt from rngState and the state is
\* cloned one level deep.
BeginTick ==
  /\ pc = "idle"
  /\ pc' = "maintenance"
  /\ snap' = cur
  /\ nxt' = [cur EXCEPT !.tick = @ + 1]
  /\ shared' = AgentIds
  /\ rng' = cur.rngState
  /\ decided' = {}
  /\ warnings' = <<>>
  /\ invoked' = <<>>
  /\ UNCHANGED <<config, cur, first, firstShared, mi, replayed, call, registry>>

MaintenancePhase ==
  /\ pc = "maintenance"
  /\ pc' = "cognition"
  /\ Store(RunInstitutions(Ctx, config, maintenanceInstitutions))
  /\ UNCHANGED <<config, mi, snap, replayed, call>>

CognitionPhase ==
  /\ pc = "cognition"
  /\ pc' = "markets"
  /\ mi' = 1
  /\ Store(Cognition(Ctx, config))
  /\ UNCHANGED <<config, snap, replayed, call>>

\* One iteration of config.activeMarkets.forEach
MarketPhase ==
  /\ pc = "markets"
  /\ mi <= Len(config.activeMarkets)
  /\ Store(ResolveMarket(Ctx, config.activeMarkets[mi]))
  /\ mi' = mi + 1
  /\ pc' = IF mi = Len(config.activeMarkets) THEN "fiscal" ELSE "markets"
  /\ UNCHANGED <<config, snap, replayed, call>>

FiscalPhase ==
  /\ pc = "fiscal"
  /\ pc' = "metrics"
  /\ Store(RunInstitutions(Ctx, config, fiscalInstitutions))
  /\ UNCHANGED <<config, mi, snap, replayed, call>>

MetricsPhase ==
  /\ pc = "metrics"
  /\ pc' = "cleanup"
  /\ nxt' = [nxt EXCEPT !.metricsHistory = Append(@, Metrics(nxt))]
  /\ UNCHANGED <<config, cur, shared, first, firstShared, rng, decided, mi, snap,
                 replayed, call, registry, warnings, invoked>>

CleanupPhase ==
  /\ pc = "cleanup"
  /\ pc' = "done"
  /\ Store(Cleanup(Ctx))
  /\ UNCHANGED <<config, mi, snap, replayed, call>>

\* The caller adopts the result as its state (the loop of the UI).
Commit ==
  /\ pc = "done"
  /\ ~replayed
  /\ nxt.tick < MaxTick
  /\ pc' = "idle"
  /\ cur' = nxt
  /\ UNCHANGED <<config, nxt, shared, first, firstShared, rng, decided, mi, snap,
                 replayed, call, registry, warnings, invoked>>

\* The caller keeps the result and calls runTick again on the same argument.
Replay ==
  /\ pc = "done"
  /\ ~replayed
  /\ replayed' = TRUE
  /\ first' = nxt
  /\ firstShared' = shared
  /\ pc' = "idle"
  /\ UNCHANGED <<config, cur, nxt, shared, rng, decided, mi, snap, call,
                 registry, warnings, invoked>>

Next ==
  \/ BeginTick
  \/ MaintenancePhase
  \/ CognitionPhase
  \/ MarketPhase
  \/ FiscalPhase
  \/ MetricsPhase
  \/ CleanupPhase
  \/ Commit
  \/ Replay

Spec == Init /\ [][Next]_vars

\* ------------------------------------------------------------ long runs
\* The caller steps LongTicks times, past MAX_HISTORY_LENGTH.
LongTicks == 101

CommitLong ==
  /\ pc = "done"
  /\ ~replayed
  /\ nxt.tick < LongTicks
  /\ pc' = "idle"
  /\ cur' = nxt
  /\ UNCHANGED <<config, nxt, shared, first, firstShared, rng, decided, mi, snap,
                 replayed, call, registry, warnings, invoked>>

NextLong ==
  \/ BeginTick
  \/ MaintenancePhase
  \/ CognitionPhase
  \/ MarketPhase
  \/ FiscalPhase
  \/ MetricsPhase
  \/ CleanupPhase
  \/ CommitLong

SpecLongRun == Init /\ [][NextLong]_vars

\* ------------------------------------------------- bankruptcy scenario
\* runTick called on a freshly initialized world in which one firm is one
\* tick short of the active bankruptcy threshold and holds less than
\* FIRM_MIN_CASH, with up to ScenarioStaff households on its payroll; the
\* caller then steps ScenarioTicks times.
ScenarioTicks == 2
ScenarioStaff == 2
ScenarioCash == {0, 2000, 4000, 4999}

\* Thresholds of the bankruptcy institutions the configuration activates.
ActiveThresholds(cfg) ==
  (IF Includes(cfg.activeInstitutions, "standard_bankruptcy")
   THEN {INSOLVENCY_THRESHOLD} ELSE {})
  \cup (IF Includes(cfg.activeInstitutions, "forgiving_bankruptcy")
        THEN {FORGIVING_THRESHOLD} ELSE {})

ThresholdOf(cfg) ==
  CHOOSE t \in ActiveThresholds(cfg) : \A u \in ActiveThresholds(cfg) : t <= u

ScenarioWorld(cfg, firmId, cash, staff) ==
  LET w == initializeSimulation(cfg)
  IN [w EXCEPT !.agents = [id \in AgentIds |->
        IF id = firmId
        THEN [w.agents[id] EXCEPT !.cash = cash,
                                  !.insolvencyStreak = ThresholdOf(cfg) - 1]
        ELSE IF \E i \in 1..staff : id = HouseholdIds[i]
        THEN [w.agents[id] EXCEPT !.employedAt = firmId]
        ELSE w.agents[id]]]

InitScenario ==
  /\ config \in EXPERIMENTS
  /\ \E i \in 1..NumFirms : \E cash \in ScenarioCash : \E staff \in 0..ScenarioStaff :
        cur = ScenarioWorld(config, FirmIds[i], cash, staff)
  /\ nxt = cur
  /\ shared = {}
  /\ first = cur
  /\ firstShared = {}
  /\ rng = cur.rngState
  /\ decided = {}
  /\ pc = "idle"
  /\ mi = 1
  /\ snap = cur
  /\ replayed = FALSE
  /\ call = NoCall
  /\ registry = MechanismRegistry
  /\ warnings = <<>>
  /\ invoked = <<>>

CommitScenario ==
  /\ nxt.tick < ScenarioTicks
  /\ Commit

NextScenario ==
  \/ BeginTick
  \/ MaintenancePhase
  \/ CognitionPhase
  \/ MarketPhase
  \/ FiscalPhase
  \/ MetricsPhase
  \/ CleanupPhase
  \/ CommitScenario

SpecScenario == InitScenario /\ [][NextScenario]_vars

\* runTick is one synchronous call of loops over finite collections: while it
\* has not returned, control moves on: to the next phase, or to the next
\* entry of activeMarkets.
Running ==
  /\ pc \in {"maintenance", "cognition", "markets", "fiscal", "metrics", "cleanup"}
  /\ pc' \in {"cognition", "markets", "fiscal", "metrics", "cleanup", "done"}
  /\ mi' \in 1..(Len(config.activeMarkets) + 1)
  /\ <<pc', mi'>> # <<pc, mi>>

SpecScenarioLive == SpecScenario /\ WF_<<pc, mi>>(Running)

\* ------------------------------------------------ goods-purchase scenario
\* A fresh world in which one firm and one household are active: the firm
\* sells at 10 with 10 units in stock and offers no wage, the household
\* holds 100 and asks a wage of 5.  What the scenario leaves open is
\* enumerated: the experiment, which firm and which household, the firm's
\* production target and the household's pantry.  The other firms are as
\* liquidation leaves a firm: inactive and without cash.
PurchaseTargets == {1, 2, 3, 5}
PurchasePantry == {0, 2}

PurchaseWorld(cfg, firmId, hhId, target, pantry) ==
  LET w == initializeSimulation(cfg)
  IN [w EXCEPT !.agents = [id \in AgentIds |->
        IF id = firmId
        THEN [w.agents[id] EXCEPT !.salesPrice = PRICE_CONSUMER_GOODS,
                                  !.inventory[GOODS] = 10,
                                  !.wageExpectation = 0,
                                  !.productionTarget = target]
        ELSE IF id = hhId
        THEN [w.agents[id] EXCEPT !.cash = 10000,
                                  !.inventory[GOODS] = pantry,
                                  !.wageExpectation = 500]
        ELSE IF w.agents[id].type = FIRM
        THEN [w.agents[id] EXCEPT !.active = FALSE, !.cash = 0]
        ELSE IF w.agents[id].type = HOUSEHOLD
        THEN [w.agents[id] EXCEPT !.active = FALSE]
        ELSE w.agents[id]]]

InitPurchase ==
  /\ config \in EXPERIMENTS
  /\ \E i \in 1..NumFirms : \E j \in 1..NumHouseholds :
     \E target \in PurchaseTargets : \E pantry \in PurchasePantry :
        cur = PurchaseWorld(config, FirmIds[i], HouseholdIds[j], target, pantry)
  /\ nxt = cur
  /\ shared = {}
  /\ first = cur
  /\ firstShared = {}
  /\ rng = cur.rngState
  /\ decided = {}
  /\ pc = "idle"
  /\ mi = 1
  /\ snap = cur
  /\ replayed = FALSE
  /\ call = NoCall
  /\ registry = MechanismRegistry
  /\ warnings = <<>>
  /\ invoked = <<>>

SpecPurchase == InitPurchase /\ [][NextScenario]_vars

\* ------------------------------------------- configurations and registry
\* runTick on worlds whose configuration names an id that the registry
\* lacks (a market, a behavior, an institution), and on worlds where a
\* further institution has been registered under a new key and activated.
ExtendedRegistry ==
  [MechanismRegistry EXCEPT !.Institutions = @ \cup {"custom_institution"}]

WithMarkets ==
  {[BASELINE EXCEPT !.activeMarkets = m] :
     m \in {<<"ghost_market", "standard_labor_market", "standard_goods_market">>,
            <<"standard_labor_market", "ghost_market", "standard_goods_market">>,
            <<"standard_labor_market", "standard_goods_market", "ghost_market">>}}

WithBehavior ==
  {[BASELINE EXCEPT !.agentBehaviors[t] = "ghost_behavior"] : t \in {HOUSEHOLD, FIRM, BANK}}

WithInstitution ==
  {[BASELINE EXCEPT !.activeInstitutions = Append(@, i)] :
     i \in {"ghost_institution", "custom_institution"}}

InitConfigured ==
  /\ config \in WithMarkets \cup WithBehavior \cup WithInstitution
  /\ registry \in {MechanismRegistry, ExtendedRegistry}
  /\ cur = initializeSimulation(config)
  /\ nxt = cur
  /\ shared = {}
  /\ first = cur
  /\ firstShared = {}
  /\ rng = cur.rngState
  /\ decided = {}
  /\ pc = "idle"
  /\ mi = 1
  /\ snap = cur
  /\ replayed = FALSE
  /\ call = NoCall
  /\ warnings = <<>>
  /\ invoked = <<>>

SpecConfigured == InitConfigured /\ [][NextScenario]_vars

\* ------------------------------------------------- accounting harness
\* transferMoney called directly on a freshly initialized world, with
\* arguments of every kind: amounts that are negative, zero, affordable,
\* beyond a household's, a firm's and the Government's cash, and beyond the
\* Central Bank's; ids of every agent type and one id that names no agent.
HarnessSenders == {GOVT, CB, HouseholdIds[1], FirmIds[1], "GHOST"}
HarnessReceivers == {GOVT, HouseholdIds[1], "GHOST"}
HarnessAmounts == {-100, 0, 15000, 600000, 150000000}
HarnessReasons == {"GIFT"}

InitTransfer ==
  /\ config = BASELINE
  /\ cur = initializeSimulation(config)
  /\ nxt = cur
  /\ shared = {}
  /\ first = cur
  /\ firstShared = {}
  /\ rng = cur.rngState
  /\ decided = {}
  /\ pc = "harness"
  /\ mi = 1
  /\ snap = cur
  /\ replayed = FALSE
  /\ call = NoCall
  /\ registry = MechanismRegistry
  /\ warnings = <<>>
  /\ invoked = <<>>

DoTransfer ==
  /\ pc = "harness"
  /\ call.n < MaxCalls
  /\ \E fromId \in HarnessSenders, toId \in HarnessReceivers,
        amount \in HarnessAmounts, reason \in HarnessReasons :
       /\ Store(TransferMoney(Ctx, fromId, toId, amount, reason))
       /\ call' = [made |-> TRUE, n |-> call.n + 1, pre |-> nxt,
                   fromId |-> fromId, toId |-> toId, amount |-> amount,
                   reason |-> reason,
                   result |-> TransferResult(Ctx, fromId, toId, amount, reason)]
  /\ UNCHANGED <<config, pc, mi, snap, replayed>>

NextTransfer == DoTransfer

SpecTransfer == InitTransfer /\ [][NextTransfer]_vars

\* ---------------------------------------------------- shuffle harness
\* shuffle called directly, on every sequence of at most MaxShuffleLen
\* elements (repetitions included) and on generators that have made up to
\* ShufflePriorDraws draws from the least seed, the shipped seed and the
\* greatest 32-bit seed.
MaxShuffleLen == 4
ShufflePriorDraws == 3
ShuffleElements == {"a", "b", "c"}
ShuffleSeeds == {RngOfSeed(0), RngOfSeed(INITIAL_SEED), <<65535, 65535, 0, 0>>}

ShuffleArrays == UNION {[1..n -> ShuffleElements] : n \in 0..MaxShuffleLen}
ShuffleStates == {RngAfter(s, k) : s \in ShuffleSeeds, k \in 0..ShufflePriorDraws}

InitShuffle ==
  /\ config = BASELINE
  /\ cur = initializeSimulation(config)
  /\ nxt = cur
  /\ shared = {}
  /\ first = cur
  /\ firstShared = {}
  /\ rng = cur.rngState
  /\ decided = {}
  /\ pc = "shuffle"
  /\ mi = 1
  /\ snap = cur
  /\ replayed = FALSE
  /\ call = NoCall
  /\ registry = MechanismRegistry
  /\ warnings = <<>>
  /\ invoked = <<>>

DoShuffle ==
  /\ pc = "shuffle"
  /\ ~call.made
  /\ \E array \in ShuffleArrays, state \in ShuffleStates :
       /\ call' = [made |-> TRUE, n |-> 1, array |-> array, state |-> state,
                   result |-> Shuffle(array, state)]
       /\ rng' = Shuffle(array, state).rng
  /\ UNCHANGED <<config, cur, nxt, shared, first, firstShared, decided, pc, mi, snap,
                 replayed, registry, warnings, invoked>>

NextShuffle == DoShuffle

SpecShuffle == InitShuffle /\ [][NextShuffle]_vars

\* --------------------------------------------- invariant-checker harness
\* validateSystemInvariants called directly on worlds in which the cash of
\* some agents is any JavaScript number: finite (in cents), NaN or an
\* infinity.  Once is enough per behavior.
Finite(v) == [kind |-> "finite", v |-> v]
NaN == [kind |-> "nan", v |-> 0]
PosInfinity == [kind |-> "posinf", v |-> 0]
NegInfinity == [kind |-> "neginf", v |-> 0]

\* a + b on JavaScript numbers
JsAdd(a, b) ==
  IF a.kind = "nan" \/ b.kind = "nan" THEN NaN
  ELSE IF a.kind = "finite" /\ b.kind = "finite" THEN Finite(a.v + b.v)
  ELSE IF a.kind = "finite" THEN b
  ELSE IF b.kind = "finite" THEN a
  ELSE IF a.kind = b.kind THEN a
  ELSE NaN

\* a < -0.0001, for a on the cent grid
JsBelowTolerance(a) == a.kind = "neginf" \/ (a.kind = "finite" /\ a.v < 0)

\* Number.isNaN(a)
JsIsNaN(a) == a.kind = "nan"

\* validateSystemInvariants on a Map of agents given by type and cash:
\* the sum over the agents that are not the Central Bank, the ids reported
\* by console.error, and whether the function threw.
ValidateNumbers(types, cash) ==
  LET f[i \in 0..Len(AgentOrder)] ==
        IF i = 0 THEN [sum |-> Finite(0), reported |-> {}]
        ELSE LET id == AgentOrder[i]
                 notCB == types[id] # CENTRAL_BANK
             IN [sum |-> IF notCB THEN JsAdd(f[i - 1].sum, cash[id]) ELSE f[i - 1].sum,
                 reported |-> IF notCB /\ JsBelowTolerance(cash[id])
                              THEN f[i - 1].reported \cup {id} ELSE f[i - 1].reported]
      end == f[Len(AgentOrder)]
  IN [value |-> end.sum, reported |-> end.reported, thrown |-> JsIsNaN(end.sum)]

ValidateCash == {Finite(-500), Finite(0), Finite(15000), NaN, PosInfinity, NegInfinity}
ValidateSubjects == {GOVT, CB, FirmIds[1], HouseholdIds[1]}

InitValidate ==
  /\ config = BASELINE
  /\ cur = initializeSimulation(config)
  /\ nxt = cur
  /\ shared = {}
  /\ first = cur
  /\ firstShared = {}
  /\ rng = cur.rngState
  /\ decided = {}
  /\ pc = "validate"
  /\ mi = 1
  /\ snap = cur
  /\ replayed = FALSE
  /\ call = NoCall
  /\ registry = MechanismRegistry
  /\ warnings = <<>>
  /\ invoked = <<>>

DoValidate ==
  /\ pc = "validate"
  /\ ~call.made
  /\ \E odd \in [ValidateSubjects -> ValidateCash] :
       LET types == [id \in AgentIds |-> nxt.agents[id].type]
           cash == [id \in AgentIds |->
                      IF id \in ValidateSubjects THEN odd[id]
                      ELSE Finite(nxt.agents[id].cash)]
       IN call' = [made |-> TRUE, n |-> 1, types |-> types, cash |-> cash,
                   outcome |-> ValidateNumbers(types, cash)]
  /\ UNCHANGED <<config, cur, nxt, shared, first, firstShared, rng, decided, pc, mi,
                 snap, replayed, registry, warnings, invoked>>

NextValidate == DoValidate

SpecValidate == InitValidate /\ [][NextValidate]_vars

\* ----------------------------------------------------- inventory harness
\* transferResource called on a fresh world with every kind of argument,
\* beside the runs of the kernel: the two ways in which the program changes
\* an inventory's quantity.
MaxResourceCalls == 1

InitResource ==
  /\ config = BASELINE
  /\ cur = initializeSimulation(config)
  /\ nxt = cur
  /\ shared = {}
  /\ first = cur
  /\ firstShared = {}
  /\ rng = cur.rngState
  /\ decided = {}
  /\ pc = "resource"
  /\ mi = 1
  /\ snap = cur
  /\ replayed = FALSE
  /\ call = NoCall
  /\ registry = MechanismRegistry
  /\ warnings = <<>>
  /\ invoked = <<>>

DoResource ==
  /\ pc = "resource"
  /\ call.n < MaxResourceCalls
  /\ \E fromId \in {GOVT, FirmIds[1], HouseholdIds[1], "GHOST"},
        toId \in {FirmIds[1], HouseholdIds[1], "GHOST"},
        resource \in {GOODS, "LABOR"},
        amount \in {-1, 0, 1, 2, 3, 10, 11} :
       /\ Store(TransferResource(Ctx, fromId, toId, resource, amount))
       /\ call' = [made |-> TRUE, n |-> call.n + 1, pre |-> nxt,
                   fromId |-> fromId, toId |-> toId,
                   resource |-> resource, amount |-> amount]
  /\ UNCHANGED <<config, pc, mi, snap, replayed>>

NextInventory == Next \/ DoResource

SpecInventory == (Init \/ InitResource) /\ [][NextInventory]_vars

\* ------------------------------------------------------------ legacy engine
\* src/engine.ts: ten agents, of which "I" is the employer and "J" the
\* government; the others are workers and producers.  Money is integral for
\* an integral base wage.  The state of a run is held in `cur`, its
\* configuration in `config`; taxRate is in percent.  Logs, lastAction and
\* the Gini coefficient are written for display and read by no step.
MaxLegacyTick == 8
FOOD_NEED == 1
LegacyOrder == <<"A", "B", "C", "D", "E", "F", "G", "H", "I", "J">>
LegacyIds == {LegacyOrder[i] : i \in 1..Len(LegacyOrder)}

\* INITIAL_AGENTS is declared in a file that is not part of the sources at
\* hand; what engine.ts fixes of it is kept (the ids "I" and "J", the four
\* roles, the initial food total of 5), the rest is drawn from these sets.
LegacyWorkerSets == {{"A", "B", "C", "D"}, {"A", "B", "C", "D", "E", "F"}}
LegacyPurses == [worker : {0, 10}, producer : {0, 20}, employer : {50, 200}, govt : {0, 50}]
LegacyPantries ==
  {[id \in LegacyIds |-> IF id = "I" THEN stock ELSE larder] :
     stock \in {1, 5, 10}, larder \in {0, 1}}

INITIAL_AGENTS(workers, purse, pantry) ==
  [id \in LegacyIds |->
     LET role == IF id = "I" THEN "capitalist"
                 ELSE IF id = "J" THEN "government"
                 ELSE IF id \in workers THEN "worker" ELSE "producer"
     IN [id |-> id, role |-> role,
         money |-> CASE role = "capitalist" -> purse.employer
                     [] role = "government" -> purse.govt
                     [] role = "worker" -> purse.worker
                     [] OTHER -> purse.producer,
         inventory |-> pantry[id], isAlive |-> TRUE, isEmployed |-> FALSE]]

LegacyConfigs ==
  [mode : {"Gold_Standard", "Fiat_Currency"},
   policy : {"Laissez_Faire", "Keynesian_Intervention"},
   baseWage : {5}, taxRate : {10, 20}]

\* agents.reduce((sum, a) => sum + a.money, 0)
LegacyMoney(agents) ==
  LET f[i \in 0..Len(LegacyOrder)] ==
        IF i = 0 THEN 0 ELSE f[i - 1] + agents[LegacyOrder[i]].money
  IN f[Len(LegacyOrder)]

LegacyFood(agents) ==
  LET f[i \in 0..Len(LegacyOrder)] ==
        IF i = 0 THEN 0 ELSE f[i - 1] + agents[LegacyOrder[i]].inventory
  IN f[Len(LegacyOrder)]

LegacySelect(agents, Test(_)) == SelectSeq(LegacyOrder, LAMBDA id : Test(agents[id]))

\* runAudit: the inflation rate over the last five prices, as a fraction,
\* and the integrity check (the tolerance of 0.01 admits no integer but 0).
runAudit(st, initialTotal) ==
  LET n == Len(st.priceHistory)
      oldPrice == IF n >= 5 THEN st.priceHistory[n - 4] ELSE 0
      currentTotalMoney == LegacyMoney(st.agents)
      expectedTotal == IF st.config.mode = "Gold_Standard" THEN initialTotal
                       ELSE initialTotal + st.govDebt
  IN [st EXCEPT !.audit =
        [inflation |-> IF n >= 5 /\ oldPrice > 0
                       THEN [num |-> st.marketPrice - oldPrice, den |-> oldPrice]
                       ELSE [num |-> 0, den |-> 1],
         integrityCheck |-> currentTotalMoney = expectedTotal]]

getInitialState(cfg, agents) ==
  runAudit([tick |-> 0, config |-> cfg, agents |-> agents,
            initialTotal |-> LegacyMoney(agents),
            totalMoney |-> LegacyMoney(agents), govDebt |-> 0,
            marketPrice |-> 6, priceHistory |-> <<6>>, totalFood |-> 5,
            aliveCount |-> Len(LegacyOrder),
            unemployment |-> [unemployed |-> 0, laborForce |-> 1],
            stimulus |-> 0,
            audit |-> [inflation |-> [num |-> 0, den |-> 1], integrityCheck |-> TRUE]],
           LegacyMoney(agents))

finalizeState(st) ==
  runAudit([st EXCEPT !.totalMoney = LegacyMoney(st.agents),
                      !.totalFood = LegacyFood(st.agents)],
           st.initialTotal)

\* 1. Keynesian stimulus: 3 to every living agent but the government, and
\* 3 * (agents.length - 1) onto the debt.
LegacyStimulus(st, currentState) ==
  LET poorCount == Len(LegacySelect(st.agents,
                         LAMBDA a : a.isAlive /\ a.money < st.marketPrice))
      isHyperInflation == currentState.audit.inflation.num > currentState.audit.inflation.den
      slump == 10 * st.unemployment.unemployed > 3 * st.unemployment.laborForce
  IN IF /\ st.config.mode = "Fiat_Currency"
        /\ st.config.policy = "Keynesian_Intervention"
        /\ ~isHyperInflation
        /\ (poorCount > 3 \/ slump)
     THEN [st EXCEPT
             !.agents = [id \in LegacyIds |->
                IF st.agents[id].isAlive /\ st.agents[id].role # "government"
                THEN [st.agents[id] EXCEPT !.money = @ + 3] ELSE st.agents[id]],
             !.govDebt = @ + (3 * (Len(LegacyOrder) - 1)),
             !.stimulus = 3]
     ELSE st

\* 2. Price discovery from the employer's stock.
LegacyPrice(st) ==
  LET lastInventory == st.agents["I"].inventory
  IN IF lastInventory > 5 THEN [st EXCEPT !.marketPrice = Max(1, @ - 1)]
     ELSE IF lastInventory = 0 THEN [st EXCEPT !.marketPrice = @ + 1]
     ELSE st

\* 3. Production: one worker and one producer, each paid the base wage,
\* make one unit.
LegacyProduction(st, workers, producers) ==
  LET baseWage == st.config.baseWage
      productionCost == baseWage * 2
      willProduce == st.marketPrice >= productionCost \/ st.agents["I"].inventory = 0
      maxAffordable == st.agents["I"].money \div productionCost
      target == Min(Len(producers), Min(maxAffordable, Len(workers)))
      hire(t, i) ==
        [t EXCEPT !.agents[workers[i]].money = @ + baseWage,
                  !.agents[workers[i]].isEmployed = TRUE,
                  !.agents[producers[i]].money = @ + baseWage,
                  !.agents[producers[i]].isEmployed = TRUE,
                  !.agents["I"].money = @ - (2 * baseWage),
                  !.agents["I"].inventory = @ + 1]
  IN IF willProduce THEN ForEach(hire, st, [i \in 1..Max(0, target) |-> i]) ELSE st

\* Fault: the tax leaves the payer and never reaches the government.
LegacyTaxLost(st0) ==
  LET tax == (st0.config.baseWage * st0.config.taxRate) \div 100
      levy(st, id) ==
        IF st.agents[id].isEmployed /\ st.agents[id].role # "capitalist"
           /\ tax > 0 /\ st.agents[id].money >= tax
        THEN [st EXCEPT !.agents[id].money = @ - tax]
        ELSE st
  IN ForEach(levy, st0, LegacyOrder)

\* 4. Tax on the employed.
LegacyTax(st0) ==
  LET tax == (st0.config.baseWage * st0.config.taxRate) \div 100
      levy(st, id) ==
        IF st.agents[id].isEmployed /\ st.agents[id].role # "capitalist"
           /\ tax > 0 /\ st.agents[id].money >= tax
        THEN [st EXCEPT !.agents[id].money = @ - tax, !.agents["J"].money = @ + tax]
        ELSE st
  IN ForEach(levy, st0, LegacyOrder)

\* 5. Consumer market: whoever is short of food buys one unit from the
\* employer at the market price; the employer takes from its own stock.
LegacyMarket(st0) ==
  LET buy(st, id) ==
        IF /\ st.agents[id].isAlive
           /\ st.agents[id].inventory < FOOD_NEED
           /\ st.agents["I"].inventory > 0
           /\ id # "I"
           /\ st.agents[id].money >= st.marketPrice
        THEN [st EXCEPT !.agents[id].money = @ - st.marketPrice,
                        !.agents[id].inventory = @ + 1,
                        !.agents["I"].money = @ + st.marketPrice,
                        !.agents["I"].inventory = @ - 1]
        ELSE st
  IN ForEach(buy, st0, LegacyOrder)

\* 6. The government's own consumption: bought, or under fiat money printed.
LegacyGovernment(st) ==
  LET govt == st.agents["J"]
      employer == st.agents["I"]
  IN IF ~(govt.inventory < FOOD_NEED /\ govt.isAlive) THEN st
     ELSE IF employer.inventory > 0 /\ govt.money >= st.marketPrice
     THEN [st EXCEPT !.agents["J"].money = @ - st.marketPrice,
                     !.agents["J"].inventory = @ + 1,
                     !.agents["I"].money = @ + st.marketPrice,
                     !.agents["I"].inventory = @ - 1]
     ELSE IF st.config.mode = "Fiat_Currency" /\ employer.inventory > 0
     THEN [st EXCEPT !.agents["J"].inventory = @ + 1,
                     !.agents["I"].inventory = @ - 1,
                     !.agents["I"].money = @ + st.marketPrice,
                     !.govDebt = @ + st.marketPrice]
     ELSE st

\* 7. Survival, then the statistics and the price history of 20.
LegacySurvival(st) ==
  LET agents == [id \in LegacyIds |->
        LET a == st.agents[id]
        IN IF ~a.isAlive THEN a
           ELSE IF a.inventory >= FOOD_NEED THEN [a EXCEPT !.inventory = @ - FOOD_NEED]
           ELSE [a EXCEPT !.isAlive = FALSE]]
      laborForce == LegacySelect(agents,
                       LAMBDA a : a.isAlive /\ a.role \in {"worker", "producer"})
      unemployed == SelectSeq(laborForce, LAMBDA id : ~agents[id].isEmployed)
      history == Append(st.priceHistory, st.marketPrice)
  IN [st EXCEPT !.agents = agents,
                !.aliveCount = Len(LegacySelect(agents, LAMBDA a : a.isAlive)),
                !.unemployment = IF Len(laborForce) > 0
                                 THEN [unemployed |-> Len(unemployed),
                                       laborForce |-> Len(laborForce)]
                                 ELSE [unemployed |-> 0, laborForce |-> 1],
                !.priceHistory = IF Len(history) > 20
                                 THEN SubSeq(history, Len(history) - 19, Len(history))
                                 ELSE history]

\* runTick of the legacy engine.
legacyRunTick(currentState) ==
  LET entered == [currentState EXCEPT !.tick = @ + 1, !.stimulus = 0]
      workers == LegacySelect(entered.agents, LAMBDA a : a.role = "worker" /\ a.isAlive)
      producers == LegacySelect(entered.agents, LAMBDA a : a.role = "producer" /\ a.isAlive)
      reset == [entered EXCEPT !.agents =
                  [id \in LegacyIds |-> [entered.agents[id] EXCEPT !.isEmployed = FALSE]]]
      s1 == LegacyStimulus(reset, currentState)
      s2 == LegacyPrice(s1)
      s3 == LegacyProduction(s2, workers, producers)
      s4 == LegacyTax(s3)
      s5 == LegacyMarket(s4)
      s6 == LegacyGovernment(s5)
  IN IF ~reset.agents["I"].isAlive THEN finalizeState(reset)
     ELSE finalizeState(LegacySurvival(s6))

InitLegacy ==
  /\ config \in LegacyConfigs
  /\ \E workers \in LegacyWorkerSets : \E purse \in LegacyPurses :
     \E pantry \in LegacyPantries :
        cur = getInitialState(config, INITIAL_AGENTS(workers, purse, pantry))
  /\ nxt = cur
  /\ shared = {}
  /\ first = cur
  /\ firstShared = {}
  /\ rng = <<0, 0, 0, 0>>
  /\ decided = {}
  /\ pc = "legacy"
  /\ mi = 1
  /\ snap = cur
  /\ replayed = FALSE
  /\ call = NoCall
  /\ registry = MechanismRegistry
  /\ warnings = <<>>
  /\ invoked = <<>>

\* One press of Step, or one interval of auto-play: state := runTick(state).
LegacyTick ==
  /\ pc = "legacy"
  /\ cur.tick < MaxLegacyTick
  /\ snap' = cur
  /\ cur' = legacyRunTick(cur)
  /\ UNCHANGED <<config, nxt, shared, first, firstShared, rng, decided, pc, mi,
                 replayed, call, registry, warnings, invoked>>

NextLegacy == LegacyTick

SpecLegacy == InitLegacy /\ [][NextLegacy]_vars

\* ------------------------------------------------------------ properties
Known(w, id) == id \in DOMAIN w.agents
CashOf(w) == [id \in DOMAIN w.agents |-> w.agents[id].cash]
LastOf(seq) == seq[Len(seq)]

\* The call was refused on one of the grounds transferMoney names.
CallOnRefusalGrounds ==
  \/ call.amount <= 0
  \/ ~Known(call.pre, call.fromId)
  \/ ~Known(call.pre, call.toId)
  \/ /\ call.pre.agents[call.fromId].type # CENTRAL_BANK
     /\ call.pre.agents[call.fromId].cash < call.amount

C2_SuccessMovesExactlyAmount ==
  (call.made /\ call.result # Null) =>
    /\ \A id \in DOMAIN call.pre.agents :
         nxt.agents[id].cash =
            call.pre.agents[id].cash
              - (IF id = call.fromId THEN call.amount ELSE 0)
              + (IF id = call.toId THEN call.amount ELSE 0)
    /\ nxt.ledger = Append(call.pre.ledger,
                           [tick |-> call.pre.tick, fromId |-> call.fromId,
                            toId |-> call.toId, amount |-> call.amount,
                            reason |-> call.reason])
    /\ call.result = LastOf(nxt.ledger)

\* A successful transfer between two different agents onto a non-empty ledger.
C2_Witness ==
  /\ call.made
  /\ call.result # Null
  /\ call.fromId # call.toId
  /\ Len(call.pre.ledger) > 0
  /\ nxt.agents[call.toId].cash = call.pre.agents[call.toId].cash + call.amount

\* A well-formed call: a positive amount between two existing agents.
CallWellFormed ==
  /\ call.made
  /\ call.amount > 0
  /\ Known(call.pre, call.fromId)
  /\ Known(call.pre, call.toId)

\* C3, as stated  Sovereign exemption: a well-formed transfer from a sender
\* of type Government or CentralBank always succeeds, whatever the sender's
\* cash.
C3_SovereignSenderAlwaysSucceeds ==
  (CallWellFormed /\ call.pre.agents[call.fromId].type \in {GOVERNMENT, CENTRAL_BANK})
     => call.result # Null

\* C3, amended  Only the Central Bank is exempt: a well-formed transfer
\* succeeds exactly when the sender is the Central Bank (whose balance may
\* go below zero) or the sender's cash is at least the amount; a Government
\* sender is held to its cash like everyone else.
C3_OnlyCentralBankExempt ==
  CallWellFormed =>
    (call.result # Null <=>
       \/ call.pre.agents[call.fromId].type = CENTRAL_BANK
       \/ call.pre.agents[call.fromId].cash >= call.amount)

\* The Government is refused a transfer beyond its cash, and the Central
\* Bank's balance is below zero after its own transfers.
C3_Witness ==
  /\ CallWellFormed
  /\ call.pre.agents[call.fromId].type = GOVERNMENT
  /\ call.pre.agents[call.fromId].cash < call.amount
  /\ call.result = Null
  /\ nxt.agents[CB].cash < 0

\* Sums of cash over the agents of a world state.
SovereignTypes == {GOVERNMENT, CENTRAL_BANK}
Sovereign(w, id) == w.agents[id].type \in SovereignTypes

RECURSIVE CashOver(_, _)
CashOver(w, ids) ==
  IF ids = {} THEN 0
  ELSE LET id == CHOOSE x \in ids : TRUE
       IN w.agents[id].cash + CashOver(w, ids \ {id})

NonSovereignCash(w) == CashOver(w, {id \in AgentIds : ~Sovereign(w, id)})
CashOutsideCentralBank(w) == CashOver(w, {id \in AgentIds : w.agents[id].type # CENTRAL_BANK})

\* This tick's ledger entries of the step's result, by direction.
FromSovereign(w) ==
  SumAmounts(SelectSeq(w.ledger, LAMBDA l :
     l.tick = w.tick /\ Sovereign(w, l.fromId) /\ ~Sovereign(w, l.toId)))
ToSovereign(w) ==
  SumAmounts(SelectSeq(w.ledger, LAMBDA l :
     l.tick = w.tick /\ ~Sovereign(w, l.fromId) /\ Sovereign(w, l.toId)))

\* C4  No-overdraft: in every world state reached from initialization under
\* a shipped experiment, whether held by the caller or being built by a
\* step, every Household, Firm and Bank has cash >= 0.
C4_NoOverdraft ==
  \A id \in AgentIds :
     ~Sovereign(cur, id) => (cur.agents[id].cash >= 0 /\ nxt.agents[id].cash >= 0)

\* At the end of a tick a household is left with less cash than any active
\* firm asks for one unit of goods.
C4_Witness ==
  /\ pc = "done"
  /\ \E h \in AgentIds :
        /\ nxt.agents[h].type = HOUSEHOLD
        /\ \A f \in AgentIds :
              (nxt.agents[f].type = FIRM /\ nxt.agents[f].active)
                 => nxt.agents[h].cash < nxt.agents[f].salesPrice

\* C5, as stated  Conservation: between tick T and tick T+1 the sum of cash
\* over the non-sovereign agents changes by the transfers that sovereign
\* agents originated in that tick, and by nothing else.
C5_OnlySovereignOriginated ==
  pc = "done" =>
    NonSovereignCash(nxt) - NonSovereignCash(snap) = FromSovereign(nxt)

\* C5, amended  Between tick T and tick T+1 the sum of cash over the
\* non-sovereign agents changes by what sovereign agents paid to
\* non-sovereign agents in that tick (bond interest, bond redemption,
\* welfare) less what non-sovereign agents paid to sovereign agents in that
\* tick (bond purchases, taxes, liquidation proceeds).
C5_NetOfSovereignFlows ==
  pc = "done" =>
    NonSovereignCash(nxt) - NonSovereignCash(snap) = FromSovereign(nxt) - ToSovereign(nxt)

\* A tick with payments in both directions.
C5_Witness ==
  /\ pc = "done"
  /\ FromSovereign(nxt) > 0
  /\ ToSovereign(nxt) > 0
  /\ NonSovereignCash(nxt) # NonSovereignCash(snap)

\* C6  The sum of cash over all agents other than the Central Bank is the
\* same in every world state of a run, the caller's and the step's alike,
\* and it is the moneySupply of every metrics snapshot.
C6_MoneySupplyConstant ==
  LET m0 == CashOutsideCentralBank(initializeSimulation(config))
  IN /\ CashOutsideCentralBank(cur) = m0
     /\ CashOutsideCentralBank(nxt) = m0
     /\ \A i \in 1..Len(nxt.metricsHistory) : nxt.metricsHistory[i].moneySupply = m0

\* Several snapshots are recorded and cash has moved between the
\* Government and the rest.
C6_Witness ==
  /\ Len(nxt.metricsHistory) >= 3
  /\ nxt.agents[GOVT].cash # initializeSimulation(config).agents[GOVT].cash
  /\ \E i \in 1..Len(nxt.ledger) : nxt.ledger[i].reason = "BOND_INTEREST"

\* C8  Replay purity: calling runTick a second time on the same world state
\* returns a world state equal in every field to what the first call returned.
C8_ReplayEqualsFirst ==
  (pc = "done" /\ replayed) => nxt = first

\* C9  runTick never mutates its argument: from the call on, through every
\* phase and after it returns, the world state passed in has the value it
\* had when the call was made.
C9_InputUntouched ==
  pc # "idle" => cur = snap

\* C10  Bankruptcy terminality: an agent whose active flag is false stays
\* inactive from then on; no household is employed at it; its behavior is
\* not invoked; and it is neither sender nor receiver of a wage-payment or
\* goods-purchase entry of the running tick.
Inactive(w) == {id \in AgentIds : ~w.agents[id].active}

C10_InactiveIsOutOfPlay ==
  /\ \A h \in AgentIds : nxt.agents[h].employedAt \notin Inactive(nxt)
  /\ decided \cap Inactive(nxt) = {}
  /\ \A i \in 1..Len(nxt.ledger) :
        (nxt.ledger[i].tick = nxt.tick
           /\ nxt.ledger[i].reason \in {"WAGE_PAYMENT", "PURCHASE_GOODS"})
        => (nxt.ledger[i].fromId \notin Inactive(nxt)
            /\ nxt.ledger[i].toId \notin Inactive(nxt))

C10_BankruptcyTerminal ==
  /\ []C10_InactiveIsOutOfPlay
  /\ [][Inactive(nxt) \subseteq Inactive(nxt') /\ Inactive(cur) \subseteq Inactive(cur')]_vars

\* A whole step has run on a world state in which a firm was already
\* inactive, while the other agents traded and took decisions.
C10_Witness ==
  /\ pc = "done"
  /\ \E f \in Inactive(snap) : f \in Inactive(nxt)
  /\ decided # {}
  /\ \E i \in 1..Len(nxt.ledger) :
        nxt.ledger[i].tick = nxt.tick /\ nxt.ledger[i].reason = "PURCHASE_GOODS"

\* C11  Ledger bound: the ledger of the world state a step returns, and so
\* of every world state the caller holds, has at most MAX_LEDGER_ITEMS
\* entries, however many transfers the tick made.
C11_LedgerBound ==
  /\ Len(cur.ledger) <= MAX_LEDGER_ITEMS
  /\ pc = "done" => Len(nxt.ledger) <= MAX_LEDGER_ITEMS

\* A step whose input ledger plus the tick's transfers exceeded the capacity:
\* the result is full and the oldest entries of the input are gone.
C11_Witness ==
  /\ pc = "done"
  /\ Len(nxt.ledger) = MAX_LEDGER_ITEMS
  /\ Len(snap.ledger) + Len(CurrentTickTransactions(nxt)) > MAX_LEDGER_ITEMS
  /\ nxt.ledger[1] # snap.ledger[1]

\* Where in the pipeline a ledger entry of the given reason is written:
\* 0 for the maintenance institutions, the position of its market in
\* config.activeMarkets for a market, one past the markets for the fiscal
\* institutions, -1 for a reason the claim does not place.
PositionIn(seq, x) ==
  IF Includes(seq, x) THEN CHOOSE i \in 1..Len(seq) : seq[i] = x ELSE -1

PhaseRank(cfg, reason) ==
  CASE reason \in {"BOND_INTEREST", "BANKRUPTCY_LIQUIDATION"} -> 0
    [] reason = "WAGE_PAYMENT" -> PositionIn(cfg.activeMarkets, "standard_labor_market")
    [] reason = "PURCHASE_GOODS" -> PositionIn(cfg.activeMarkets, "standard_goods_market")
    [] reason \in {"INCOME_TAX", "WEALTH_TAX", "EMERGENCY_WELFARE"} ->
         Len(cfg.activeMarkets) + 1
    [] OTHER -> -1

LedgerSliceInPhaseOrder ==
  LET slice == CurrentTickTransactions(nxt)
      rank(i) == PhaseRank(config, slice[i].reason)
  IN \A i \in 1..Len(slice) : \A j \in 1..Len(slice) :
        (i < j /\ rank(i) >= 0 /\ rank(j) >= 0) => rank(i) <= rank(j)

PhaseSuccession ==
  /\ <<pc, pc'>> \in {<<"idle", "maintenance">>, <<"maintenance", "cognition">>,
                      <<"cognition", "markets">>, <<"markets", "markets">>,
                      <<"markets", "fiscal">>, <<"fiscal", "metrics">>,
                      <<"metrics", "cleanup">>, <<"cleanup", "done">>, <<"done", "idle">>}
  /\ pc' = "markets" => mi' = (IF pc = "markets" THEN mi + 1 ELSE 1)
  /\ pc' = "fiscal" => mi = Len(config.activeMarkets)

\* C12  Phase order: a step runs maintenance institutions, cognition, the
\* markets one by one in the order of config.activeMarkets, fiscal
\* institutions, metrics and cleanup, in that order; and in the tick's
\* ledger slice bond-interest and liquidation entries come before wage and
\* goods-purchase entries, which come before tax and welfare entries, the
\* entries of an earlier-listed market before those of a later-listed one.
C12_PhaseOrder ==
  /\ []LedgerSliceInPhaseOrder
  /\ [][PhaseSuccession]_vars

\* A finished tick whose slice holds entries of the maintenance phase, of
\* both markets and of the fiscal phase.
C12_Witness ==
  /\ pc = "done"
  /\ \A reason \in {"BOND_INTEREST", "WAGE_PAYMENT", "PURCHASE_GOODS", "INCOME_TAX"} :
        \E i \in 1..Len(nxt.ledger) :
           nxt.ledger[i].tick = nxt.tick /\ nxt.ledger[i].reason = reason

\* Firms that were active with a streak at or above an active threshold
\* when the running step was called.
Doomed ==
  {f \in AgentIds : /\ snap.agents[f].type = FIRM
                    /\ snap.agents[f].active
                   /\ \E t \in ActiveThresholds(config) : snap.agents[f].insolvencyStreak >= t}

OnTheBrink ==
  {f \in AgentIds : /\ snap.agents[f].type = FIRM
                    /\ snap.agents[f].active
                    /\ ActiveThresholds(config) # {}
                    /\ snap.agents[f].insolvencyStreak = ThresholdOf(config) - 1
                    /\ snap.agents[f].cash < FIRM_MIN_CASH}

LiquidationEntries(f) ==
  {i \in 1..Len(nxt.ledger) : /\ nxt.ledger[i].tick = nxt.tick
                              /\ nxt.ledger[i].reason = "BANKRUPTCY_LIQUIDATION"
                              /\ nxt.ledger[i].fromId = f}

\* Tick T: the streak reaches the threshold in cognition and the firm stays
\* active to the end of the tick.
StreakReachesThreshold ==
  pc \in {"markets", "fiscal", "metrics", "cleanup", "done"} =>
    \A f \in OnTheBrink :
      /\ nxt.agents[f].insolvencyStreak = ThresholdOf(config)
      /\ nxt.agents[f].active

\* Tick T+1: after maintenance the firm is inactive with no cash, and who
\* was on its payroll is unemployed (and is not hired back by it later).
DeactivatedAndStaffReleased ==
  pc \notin {"idle", "maintenance"} =>
    \A f \in Doomed :
      /\ ~nxt.agents[f].active
      /\ nxt.agents[f].cash = 0
      /\ \A h \in AgentIds :
            snap.agents[h].employedAt = f =>
              /\ nxt.agents[h].employedAt # f
              /\ pc = "cognition" => nxt.agents[h].employedAt = NoId
      /\ \A i \in LiquidationEntries(f) :
            /\ nxt.ledger[i].toId = GOVT
            /\ nxt.ledger[i].amount = snap.agents[f].cash

C15_CognitionFrame ==
  [][pc = "cognition" =>
       /\ nxt'.ledger = nxt.ledger
       /\ \A id \in AgentIds : id \notin decided' => nxt'.agents[id] = nxt.agents[id]]_vars

\* The ids the configuration names that the registry lacks.
UnknownIds ==
  ({config.activeMarkets[i] : i \in 1..Len(config.activeMarkets)} \ registry.Markets)
  \cup ({config.agentBehaviors[t] : t \in DOMAIN config.agentBehaviors} \ registry.Behaviors)
  \cup ({config.activeInstitutions[i] : i \in 1..Len(config.activeInstitutions)}
          \ registry.Institutions)

Occurrences(seq, x) == Cardinality({i \in 1..Len(seq) : seq[i] = x})

\* C16  Configuration error handling: when a step has run, every market,
\* behavior or institution id that the configuration names and the registry
\* lacks has been reported by a warning, and every other configured
\* mechanism has run: each registered market listed, the registered
\* behavior of each agent active at the call, each shipped institution listed.
C16_UnknownIdReportedAndSkipped ==
  pc = "done" =>
    /\ \A id \in UnknownIds : Includes(warnings, id)
    /\ \A i \in 1..Len(config.activeMarkets) :
          config.activeMarkets[i] \in registry.Markets
            => Includes(invoked, config.activeMarkets[i])
    /\ \A i \in 1..Len(config.activeInstitutions) :
          config.activeInstitutions[i] \in MechanismRegistry.Institutions
            => Includes(invoked, config.activeInstitutions[i])
    /\ \A id \in AgentIds :
          (/\ nxt.agents[id].active
           /\ BehaviorIdOf(config, nxt.agents[id].type) \in registry.Behaviors)
          => id \in decided

\* C17  Registry extensibility: when a step has run, every institution key
\* that is both registered and listed in config.activeInstitutions has had
\* its apply invoked exactly once, whether or not it is one of the six
\* shipped keys.
C17_RegisteredInstitutionAppliedOnce ==
  pc = "done" =>
    \A i \in 1..Len(config.activeInstitutions) :
       config.activeInstitutions[i] \in registry.Institutions
         => Occurrences(invoked, config.activeInstitutions[i]) = 1

\* The most next() calls one phase can make: a household draws at most once
\* and a firm at most twice in cognition; a market shuffles the households
\* or the firms.
MaxDraws == NumHouseholds + (2 * NumFirms)

\* The generator only ever moves by next(): a step starts it from the input
\* rngState, each phase advances it by some number of draws, and the caller
\* adopts the state the step stored.
StreamContinues ==
  /\ pc = "idle" => rng' = cur.rngState
  /\ pc \notin {"idle", "done"} => \E k \in 0..MaxDraws : rng' = RngAfter(rng, k)
  /\ pc = "done" => /\ rng' = rng
                    /\ cur' # cur => cur'.rngState = rng

\* C18  Generator pause/resume: a step builds its generator from the input
\* rngState and stores the generator's state in its result, and the input's
\* rngState is not touched meanwhile; so the generator a later step builds
\* resumes exactly where the earlier one stopped, and the draws of
\* consecutive ticks are one stream of next() calls from the initial state.
C18_PauseResume ==
  /\ [](pc = "done" => nxt.rngState = rng)
  /\ [](pc # "idle" => cur.rngState = snap.rngState)
  /\ [][StreamContinues]_vars

\* A step has finished that drew values, after an earlier step that drew
\* values too.
C18_Witness ==
  /\ pc = "done"
  /\ nxt.tick >= 2
  /\ nxt.rngState # snap.rngState
  /\ snap.rngState # RngAfter(RngOfSeed(config.initialSeed), NumHouseholds)

\* A generator state that fits 32 bits: the two upper limbs are zero.
Is32Bit(s) == s[3] = 0 /\ s[4] = 0

\* C19  Fixed width: the generator's state, and the rngState persisted in
\* every world state, is a 32-bit integer after any number of next() calls,
\* the additive step wrapping modulo 2^32.
C19_StateIs32Bit ==
  /\ Is32Bit(rng)
  /\ Is32Bit(cur.rngState)
  /\ Is32Bit(nxt.rngState)

\* The index shuffle picks at its k-th draw, counted from 1, in an array of
\* n elements: position n - k + 1 is the one being fixed.
PickedIndex(state, n, k) == ScaleWord(RngOutput(RngAfter(state, k)), n - k + 1) + 1

\* C20  shuffle: for every input sequence of length n and every generator
\* state the result has the input's length and the input's elements with
\* the same multiplicities; each picked index lies in the prefix not yet
\* fixed; and the generator has made exactly n draws.
C20_ShufflePermutes ==
  call.made =>
    LET n == Len(call.array)
    IN /\ Len(call.result.array) = n
       /\ \A x \in ShuffleElements :
             Occurrences(call.result.array, x) = Occurrences(call.array, x)
       /\ \A k \in 1..n : PickedIndex(call.state, n, k) \in 1..(n - k + 1)
       /\ call.result.rng = RngAfter(call.state, n)
       /\ rng = call.result.rng

\* A sequence of at least three elements with a repeated one came back in
\* another order, from a generator whose state is past 32 bits.
C20_Witness ==
  /\ call.made
  /\ Len(call.array) >= 3
  /\ \E i, j \in 1..Len(call.array) : i # j /\ call.array[i] = call.array[j]
  /\ call.result.array # call.array
  /\ ~Is32Bit(call.state)

\* The snapshot the running step has pushed.
Snapshot == nxt.metricsHistory[Len(nxt.metricsHistory)]
SnapshotTaken == pc \in {"cleanup", "done"}

\* C21  Money supply, as claimed: the moneySupply of the tick's snapshot is
\* the sum of cash over the non-sovereign agents at the end of the tick,
\* the Government and the Central Bank both left out.
C21_MoneySupplyNonSovereign ==
  SnapshotTaken => Snapshot.moneySupply = NonSovereignCash(nxt)

\* C21 (amended)  The moneySupply of the tick's snapshot is the sum of cash
\* over every agent other than the Central Bank at the end of the tick: the
\* Government's cash is counted.
C21_MoneySupplyOutsideCentralBank ==
  SnapshotTaken =>
    /\ Snapshot.tick = nxt.tick
    /\ Snapshot.moneySupply = CashOutsideCentralBank(nxt)

\* A later tick's snapshot, taken while the Government holds cash that the
\* tick has changed.
C21_Witness ==
  /\ pc = "done"
  /\ nxt.tick >= 2
  /\ nxt.agents[GOVT].cash > 0
  /\ nxt.agents[GOVT].cash # snap.agents[GOVT].cash

\* This tick's goods-purchase entries in the running step's ledger.
SalesEntries ==
  {i \in 1..Len(nxt.ledger) :
     nxt.ledger[i].tick = nxt.tick /\ nxt.ledger[i].reason = "PURCHASE_GOODS"}

RECURSIVE AmountOver(_)
AmountOver(indices) ==
  IF indices = {} THEN 0
  ELSE LET i == CHOOSE x \in indices : TRUE
       IN nxt.ledger[i].amount + AmountOver(indices \ {i})

\* C22  CPI fallback: the snapshot's gdp is the sum of this tick's
\* goods-purchase amounts; with at least one such entry its cpi is that sum
\* divided by their count (to the cent), and with none it is the cpi of the
\* previous snapshot (the initial goods price when there is none yet).
C22_CpiMeanOrPrevious ==
  SnapshotTaken =>
    LET count == Cardinality(SalesEntries)
        n == Len(nxt.metricsHistory)
    IN /\ Snapshot.gdp = AmountOver(SalesEntries)
       /\ count > 0 => /\ Snapshot.cpi * count <= Snapshot.gdp
                       /\ Snapshot.gdp < (Snapshot.cpi + 1) * count
       /\ (count = 0 /\ n > 1) => Snapshot.cpi = nxt.metricsHistory[n - 1].cpi
       /\ (count = 0 /\ n = 1) => Snapshot.cpi = PRICE_CONSUMER_GOODS

\* A tick without trade whose snapshot repeats a cpi that an earlier tick
\* with trade moved away from the initial price.
C22_Witness ==
  /\ pc = "done"
  /\ SalesEntries = {}
  /\ Len(nxt.metricsHistory) > 1
  /\ Snapshot.cpi # PRICE_CONSUMER_GOODS
  /\ Snapshot.gdp = 0

\* C23  History cap: the metricsHistory of the world state the caller
\* holds, and of the one a step is building, never has more than
\* MAX_HISTORY_LENGTH snapshots.
C23_HistoryCapped ==
  /\ Len(cur.metricsHistory) <= MAX_HISTORY_LENGTH
  /\ Len(nxt.metricsHistory) <= MAX_HISTORY_LENGTH

\* The estimated minimum food cost of EmergencyWelfare, in cents.
EstimatedFoodCost == 1000

WelfareActive == Includes(config.activeInstitutions, "emergency_welfare")
AfterFiscal == pc \in {"metrics", "cleanup", "done"}

CheckedKinds == {call.cash[id].kind : id \in {a \in AgentIds : call.types[a] # CENTRAL_BANK}}
SupplyIsNaN == "nan" \in CheckedKinds \/ {"posinf", "neginf"} \subseteq CheckedKinds
SupplyIsFinite == CheckedKinds = {"finite"}

\* C25  Fatal condition: the checker halts the step exactly when the
\* recomputed money supply is not a finite number, NaN or an infinity;
\* every agent other than the Central Bank with negative cash is reported,
\* which by itself does not halt.
C25_FatalIffNotFinite ==
  call.made =>
    /\ call.outcome.thrown <=> ~SupplyIsFinite
    /\ call.outcome.reported =
         {id \in AgentIds : /\ call.types[id] # CENTRAL_BANK
                            /\ JsBelowTolerance(call.cash[id])}
    /\ (SupplyIsFinite /\ call.outcome.reported # {}) => ~call.outcome.thrown

\* What a finished step returns, against what it was given.
StepResult ==
  pc = "done" =>
    /\ nxt.tick = snap.tick + 1
    /\ Len(nxt.metricsHistory) = Len(snap.metricsHistory) + 1
    /\ Snapshot.tick = nxt.tick
    /\ SubSeq(nxt.metricsHistory, 1, Len(snap.metricsHistory)) = snap.metricsHistory

\* C26  Every step completes: a step that has been entered reaches its end,
\* and what it returns has the input's tick plus one and the input's metrics
\* history with exactly one snapshot more, stamped with the new tick;
\* transfers refused on the way do not stop it.
C26_StepCompletes ==
  /\ []StepResult
  /\ (pc \notin {"idle", "done"}) ~> (pc = "done")

\* A step has finished in which a firm could not pay the wage it offered:
\* it holds less than its offer, paid no wage, is short of staff, and a
\* household willing to work for the offer is still unemployed.
C26_Witness ==
  /\ pc = "done"
  /\ \E f \in AgentIds :
        /\ nxt.agents[f].type = FIRM /\ nxt.agents[f].active
        /\ snap.agents[f].cash < nxt.agents[f].wageExpectation
        /\ ~\E i \in 1..Len(nxt.ledger) :
              /\ nxt.ledger[i].tick = nxt.tick
              /\ nxt.ledger[i].fromId = f
              /\ nxt.ledger[i].reason = "WAGE_PAYMENT"
        /\ Cardinality({h \in AgentIds : nxt.agents[h].employedAt = f})
             < nxt.agents[f].productionTarget
        /\ \E h \in AgentIds :
              /\ nxt.agents[h].type = HOUSEHOLD /\ nxt.agents[h].active
              /\ nxt.agents[h].employedAt = NoId
              /\ nxt.agents[h].wageExpectation <= nxt.agents[f].wageExpectation

\* The scenario's firm and household, and the tick's goods purchases.
TheFirm == CHOOSE f \in AgentIds : first.agents[f].type = FIRM /\ first.agents[f].active
TheHousehold ==
  CHOOSE h \in AgentIds : first.agents[h].type = HOUSEHOLD /\ first.agents[h].active
FirstStepDone == pc = "done" /\ nxt.tick = 1
PricesAfterDecision ==
  {(PRICE_CONSUMER_GOODS * 80) \div 100, (PRICE_CONSUMER_GOODS * 98) \div 100,
   PRICE_CONSUMER_GOODS, (PRICE_CONSUMER_GOODS * 102) \div 100}
InitialCash == first.agents[TheHousehold].cash
InitialSavings == ((InitialCash - (3 * PRICE_CONSUMER_GOODS * FOOD_CONSUMPTION)) * 30) \div 100

GoodsMarketStep ==
  /\ pc = "markets"
  /\ mi <= Len(config.activeMarkets)
  /\ config.activeMarkets[mi] = "standard_goods_market"
  /\ "standard_goods_market" \in registry.Markets
  /\ MarketPhase

RECURSIVE AmountIn(_, _)
AmountIn(ledger, indices) ==
  IF indices = {} THEN 0
  ELSE LET i == CHOOSE x \in indices : TRUE
       IN ledger[i].amount + AmountIn(ledger, indices \ {i})

\* C28  Goods settlement is an atomic pair: the goods market adds only
\* goods-purchase entries, each from an active household to an active firm;
\* every firm's stock falls by the number of entries paid to it and never
\* below zero, and its lastRevenue grows by their amounts; every household's
\* stock rises by the number of entries it paid and its cash falls by their
\* amounts.
C28_SettlementPairs ==
  [][GoodsMarketStep =>
      LET before == nxt.ledger
          after == nxt'.ledger
          added == (Len(before) + 1)..Len(after)
          paidTo(f) == {i \in added : after[i].toId = f}
          paidBy(h) == {i \in added : after[i].fromId = h}
      IN /\ Len(after) >= Len(before)
         /\ SubSeq(after, 1, Len(before)) = before
         /\ \A i \in added :
              /\ after[i].reason = "PURCHASE_GOODS"
              /\ after[i].amount > 0
              /\ nxt.agents[after[i].fromId].type = HOUSEHOLD
              /\ nxt.agents[after[i].fromId].active
              /\ nxt.agents[after[i].toId].type = FIRM
              /\ nxt.agents[after[i].toId].active
         /\ \A id \in AgentIds :
              LET stock == nxt.agents[id].inventory[GOODS]
                  stockAfter == nxt'.agents[id].inventory[GOODS]
              IN CASE nxt.agents[id].type = FIRM ->
                        /\ stock - stockAfter = Cardinality(paidTo(id))
                        /\ stockAfter >= 0
                        /\ nxt'.agents[id].lastRevenue - nxt.agents[id].lastRevenue
                             = AmountIn(after, paidTo(id))
                        /\ nxt'.agents[id].cash - nxt.agents[id].cash
                             = AmountIn(after, paidTo(id))
                   [] nxt.agents[id].type = HOUSEHOLD ->
                        /\ stockAfter - stock = Cardinality(paidBy(id))
                        /\ nxt.agents[id].cash - nxt'.agents[id].cash
                             = AmountIn(after, paidBy(id))
                   [] OTHER -> stockAfter = stock]_vars

\* The goods market has just resolved, and one firm sold to two households.
C28_Witness ==
  /\ pc = "fiscal"
  /\ \E i \in SalesEntries : \E j \in SalesEntries :
        /\ i # j
        /\ nxt.ledger[i].toId = nxt.ledger[j].toId
        /\ nxt.ledger[i].fromId # nxt.ledger[j].fromId

\* C29  Cheapest-first buying: in the goods market a household buys at most
\* its per-tick need; a unit it buys comes from a firm whose price no active
\* firm with stock at the household's turn undercuts; and a household that
\* ends its turn short of its need could afford no active firm that had
\* stock at its turn.
C29_CheapestFirst ==
  [][GoodsMarketStep =>
      LET after == nxt'.ledger
          added == (Len(nxt.ledger) + 1)..Len(after)
          turn(h) == PositionIn(AgentOrder, h)
          \* firm g's stock when household h's turn begins
          stockAt(g, h) ==
            nxt.agents[g].inventory[GOODS]
              - Cardinality({j \in added : /\ after[j].toId = g
                                           /\ turn(after[j].fromId) < turn(h)})
          stockedAt(h) == {g \in AgentIds : /\ nxt.agents[g].type = FIRM
                                            /\ nxt.agents[g].active
                                            /\ stockAt(g, h) > 0}
          boughtBy(h) == {i \in added : after[i].fromId = h}
      IN \A h \in AgentIds :
           (nxt.agents[h].type = HOUSEHOLD /\ nxt.agents[h].active) =>
             /\ Cardinality(boughtBy(h)) <= FOOD_CONSUMPTION
             /\ \A i \in boughtBy(h) :
                  /\ after[i].toId \in stockedAt(h)
                  /\ after[i].amount = nxt.agents[after[i].toId].salesPrice
                  /\ \A g \in stockedAt(h) : nxt.agents[g].salesPrice >= after[i].amount
             /\ Cardinality(boughtBy(h)) < FOOD_CONSUMPTION =>
                  \A g \in stockedAt(h) : nxt.agents[h].cash < nxt.agents[g].salesPrice]_vars

\* The goods market has just resolved; a household bought from one firm
\* while a dearer firm still has stock, and another household bought nothing.
C29_Witness ==
  /\ pc = "fiscal"
  /\ \E i \in SalesEntries : \E g \in AgentIds :
        /\ nxt.agents[g].type = FIRM /\ nxt.agents[g].active
        /\ nxt.agents[g].inventory[GOODS] > 0
        /\ nxt.agents[g].salesPrice > nxt.ledger[i].amount
  /\ \E h \in AgentIds :
        /\ nxt.agents[h].type = HOUSEHOLD /\ nxt.agents[h].active
        /\ \A i \in SalesEntries : nxt.ledger[i].fromId # h

\* The active households on a firm's payroll.
StaffOf(w, f) ==
  {h \in AgentIds : /\ w.agents[h].type = HOUSEHOLD
                    /\ w.agents[h].active
                    /\ w.agents[h].employedAt = f}
LaborMarketRan == Includes(invoked, "standard_labor_market")

\* C30  Hiring cap: once the labor market has run in a tick, and until the
\* tick ends, every active firm has at most as many active households on its
\* payroll as its production target.
C30_HiringCap ==
  LaborMarketRan =>
    \A f \in AgentIds :
      (nxt.agents[f].type = FIRM /\ nxt.agents[f].active) =>
        Cardinality(StaffOf(nxt, f)) <= nxt.agents[f].productionTarget

\* A tick has ended in which one firm's staff was cut down to its target,
\* and a firm with its need filled left a household unemployed that would
\* have worked for its offer.
C30_Witness ==
  /\ pc = "done"
  /\ LaborMarketRan
  /\ \E f \in AgentIds :
        /\ nxt.agents[f].type = FIRM /\ nxt.agents[f].active
        /\ Cardinality(StaffOf(snap, f)) > nxt.agents[f].productionTarget
        /\ Cardinality(StaffOf(nxt, f)) = nxt.agents[f].productionTarget
  /\ \E f \in AgentIds : \E h \in AgentIds :
        /\ nxt.agents[f].type = FIRM /\ nxt.agents[f].active
        /\ nxt.agents[f].productionTarget > 0
        /\ Cardinality(StaffOf(nxt, f)) = nxt.agents[f].productionTarget
        /\ nxt.agents[h].type = HOUSEHOLD /\ nxt.agents[h].active
        /\ nxt.agents[h].employedAt = NoId
        /\ nxt.agents[h].wageExpectation <= nxt.agents[f].wageExpectation
        /\ nxt.agents[f].cash >= nxt.agents[f].wageExpectation

\* The step that resolves the labor market.
LaborMarketStep ==
  /\ pc = "markets"
  /\ mi <= Len(config.activeMarkets)
  /\ config.activeMarkets[mi] = "standard_labor_market"
  /\ "standard_labor_market" \in registry.Markets
  /\ MarketPhase

WageEntries ==
  {i \in 1..Len(nxt.ledger) : nxt.ledger[i].tick = nxt.tick
                              /\ nxt.ledger[i].reason = "WAGE_PAYMENT"}

\* A household that the labor market finds free for hire: unemployed, or on
\* the payroll of a dead firm (detached first), or of a firm with more staff
\* than its target (which fires before any firm later in order hires).
FreeForHire(h) ==
  LET employer == nxt.agents[h].employedAt
  IN \/ employer = NoId
     \/ ~nxt.agents[employer].active
     \/ Cardinality(StaffOf(nxt, employer)) > nxt.agents[employer].productionTarget

\* C31  Every wage payment is one hire that met the matching rule: the labor
\* market adds only wage payments, each from an active firm to an active
\* household that was free for hire and is on that firm's payroll afterwards,
\* of the firm's wage offer, which is at least the household's reservation
\* wage and no more than the firm held; a household that joins a payroll has
\* such an entry; and no household receives two wage payments in a tick.
C31_WagePaymentIsHire ==
  /\ [](\A h \in AgentIds :
          Cardinality({i \in WageEntries : nxt.ledger[i].toId = h}) <= 1)
  /\ [][LaborMarketStep =>
      LET after == nxt'.ledger
          added == (Len(nxt.ledger) + 1)..Len(after)
      IN /\ SubSeq(after, 1, Len(nxt.ledger)) = nxt.ledger
         /\ \A i \in added :
              LET f == after[i].fromId
                  h == after[i].toId
              IN /\ after[i].reason = "WAGE_PAYMENT"
                 /\ nxt.agents[f].type = FIRM /\ nxt.agents[f].active
                 /\ nxt.agents[h].type = HOUSEHOLD /\ nxt.agents[h].active
                 /\ nxt.agents[h].employedAt # f
                 /\ FreeForHire(h)
                 /\ nxt'.agents[h].employedAt = f
                 /\ after[i].amount = nxt.agents[f].wageExpectation
                 /\ after[i].amount >= nxt.agents[h].wageExpectation
                 /\ after[i].amount <= nxt.agents[f].cash
         /\ \A h \in AgentIds :
              LET employer == nxt'.agents[h].employedAt
              IN (employer # NoId /\ employer # nxt.agents[h].employedAt) =>
                   \E i \in added : after[i].toId = h /\ after[i].fromId = employer]_vars

\* The labor market has just resolved with a hire; a household whose
\* reservation wage is above every offer stays unemployed, and so does one
\* that a firm short of staff would have hired had it held its wage offer.
C31_Witness ==
  /\ pc = "markets" /\ mi = 2
  /\ config.activeMarkets[1] = "standard_labor_market"
  /\ WageEntries # {}
  /\ \E h \in AgentIds :
        /\ nxt.agents[h].type = HOUSEHOLD /\ nxt.agents[h].active
        /\ nxt.agents[h].employedAt = NoId
        /\ \A f \in AgentIds :
             nxt.agents[f].type = FIRM => nxt.agents[f].wageExpectation < nxt.agents[h].wageExpectation
  /\ \E f \in AgentIds : \E h \in AgentIds :
        /\ nxt.agents[f].type = FIRM /\ nxt.agents[f].active
        /\ nxt.agents[f].cash < nxt.agents[f].wageExpectation
        /\ Cardinality(StaffOf(nxt, f)) < nxt.agents[f].productionTarget
        /\ nxt.agents[h].type = HOUSEHOLD /\ nxt.agents[h].active
        /\ nxt.agents[h].employedAt = NoId
        /\ nxt.agents[h].wageExpectation <= nxt.agents[f].wageExpectation

\* The households a firm employed when the tick began and still employs.
Retained(f) == StaffOf(snap, f) \cap StaffOf(nxt, f)

RECURSIVE SkillOver(_, _)
SkillOver(w, hs) ==
  IF hs = {} THEN 0
  ELSE LET h == CHOOSE x \in hs : TRUE
       IN (IF w.agents[h].skillLevel = 0 THEN 100 ELSE w.agents[h].skillLevel)
          + SkillOver(w, hs \ {h})

Jobless(w) ==
  {h \in AgentIds : /\ w.agents[h].type = HOUSEHOLD /\ w.agents[h].active
                    /\ w.agents[h].employedAt = NoId}
Living(w) == {h \in AgentIds : w.agents[h].type = HOUSEHOLD /\ w.agents[h].active}

\* C32  Wages are paid only on hiring: at the end of a step, a household
\* that a firm employed when the tick began and still employs has received no
\* wage payment in the tick; yet its skill has grown as an employed
\* household's does, the firm's stock has grown by the output of its whole
\* staff less the units it sold, and the snapshot's unemployment rate counts
\* only households without employer.
C32_WageOnlyOnHire ==
  pc = "done" =>
    /\ \A f \in AgentIds :
         (nxt.agents[f].type = FIRM /\ nxt.agents[f].active) =>
           /\ \A h \in Retained(f) :
                /\ \A i \in WageEntries : nxt.ledger[i].toId # h
                /\ nxt.agents[h].skillLevel
                     = (IF snap.agents[h].skillLevel + 1 > 200 THEN 200
                        ELSE snap.agents[h].skillLevel + 1)
           /\ nxt.agents[f].inventory[GOODS]
                = (snap.agents[f].inventory[GOODS]
                     + ((SkillOver(nxt, StaffOf(nxt, f)) * 2) \div 100))
                  - Cardinality({i \in SalesEntries : nxt.ledger[i].toId = f})
    /\ Living(nxt) # {} =>
         Snapshot.unemploymentRate
           = (Cardinality(Jobless(nxt)) * 10000) \div Cardinality(Living(nxt))

\* A step has ended in which a firm kept a household it already employed,
\* paid a wage to another it hired, and produced.
C32_Witness ==
  /\ pc = "done"
  /\ \E f \in AgentIds :
        /\ nxt.agents[f].type = FIRM /\ nxt.agents[f].active
        /\ Retained(f) # {}
        /\ \E i \in WageEntries : nxt.ledger[i].fromId = f
        /\ SkillOver(nxt, Retained(f)) * 2 >= 100

\* Between entry and cleanup a step only appends to the ledger it builds.
AppendsOnly ==
  (pc \in {"maintenance", "cognition", "markets", "fiscal", "metrics"}) =>
    /\ Len(nxt'.ledger) >= Len(nxt.ledger)
    /\ SubSeq(nxt'.ledger, 1, Len(nxt.ledger)) = nxt.ledger
    /\ \A i \in (Len(nxt.ledger) + 1)..Len(nxt'.ledger) : nxt'.ledger[i].tick = nxt.tick

\* What a finished step returns as ledger: the input ledger followed by the
\* tick's entries, cut from the old end down to the capacity.
LedgerResult ==
  pc = "done" =>
    LET old == snap.ledger
        total == Len(old) + Snapshot.transactionCount
        kept == IF total > MAX_LEDGER_ITEMS THEN MAX_LEDGER_ITEMS ELSE total
    IN /\ cur.ledger = old
       /\ Len(nxt.ledger) = kept
       /\ \A j \in 1..kept :
            LET pos == (total - kept) + j
            IN IF pos <= Len(old) THEN nxt.ledger[j] = old[pos]
               ELSE nxt.ledger[j].tick = nxt.tick
       /\ \A j \in 1..(kept - 1) : nxt.ledger[j].tick <= nxt.ledger[j + 1].tick

\* C33  The ledger is append-only but pruned: a step's output ledger is its
\* input ledger followed by the entries created during the tick, each stamped
\* with the new tick, less the oldest entries beyond the capacity; entries
\* kept are unchanged and in order, ticks never decrease along the ledger,
\* and the input ledger itself is left as it was.
C33_LedgerAppendOnlyPruned ==
  /\ []LedgerResult
  /\ [][AppendsOnly]_vars

\* A step has ended that created entries and dropped old ones.
C33_Witness ==
  /\ pc = "done"
  /\ Snapshot.transactionCount > 0
  /\ Len(snap.ledger) + Snapshot.transactionCount > MAX_LEDGER_ITEMS
  /\ nxt.ledger[1].tick < nxt.tick

\* This tick's entries in which f is the sender, and its goods sales.
SentBy(f) == {i \in 1..Len(nxt.ledger) : nxt.ledger[i].tick = nxt.tick
                                         /\ nxt.ledger[i].fromId = f}
SalesOf(f) == {i \in SalesEntries : nxt.ledger[i].toId = f}

\* C34  Cleanup bookkeeping: at the end of a step every active firm's
\* lastProfit is what it took in this tick's goods sales less the amounts of
\* all this-tick ledger entries it sent, and its lastRevenue is 0.
C34_CleanupBookkeeping ==
  pc = "done" =>
    \A f \in AgentIds :
      (nxt.agents[f].type = FIRM /\ nxt.agents[f].active) =>
        /\ nxt.agents[f].lastRevenue = 0
        /\ nxt.agents[f].lastProfit
             = AmountIn(nxt.ledger, SalesOf(f)) - AmountIn(nxt.ledger, SentBy(f))

\* A step has ended in which a firm sold goods and paid out, while old
\* entries were dropped from the ledger.
C34_Witness ==
  /\ pc = "done"
  /\ Len(snap.ledger) + Snapshot.transactionCount > MAX_LEDGER_ITEMS
  /\ \E f \in AgentIds :
        /\ nxt.agents[f].type = FIRM /\ nxt.agents[f].active
        /\ SalesOf(f) # {}
        /\ SentBy(f) # {}

\* transferResource's grounds for refusal, read off the call's arguments.
ResourceCall == pc = "resource" /\ call.made
ResourceCallRefused ==
  \/ call.amount <= 0
  \/ ~Known(call.pre, call.fromId)
  \/ ~Known(call.pre, call.toId)
  \/ call.pre.agents[call.fromId].inventory[call.resource] < call.amount

NoNegativeInventory(w) ==
  \A id \in DOMAIN w.agents : \A r \in ResourceType : w.agents[id].inventory[r] >= 0

\* C35  Inventories stay non-negative: a transferResource call with
\* amount <= 0, an unknown id or a sender holding less than amount changes
\* nothing; any other call takes amount of the resource from the sender and
\* gives it to the receiver, and changes no other quantity, no cash and no
\* ledger; and in every state of a run every quantity of every agent is >= 0.
C35_InventoriesNonNegative ==
  /\ NoNegativeInventory(cur) /\ NoNegativeInventory(nxt)
  /\ ResourceCall =>
       IF ResourceCallRefused THEN nxt = call.pre
       ELSE LET before(id) == call.pre.agents[id].inventory[call.resource]
                moved(id) == (IF id = call.toId THEN call.amount ELSE 0)
                               - (IF id = call.fromId THEN call.amount ELSE 0)
            IN /\ \A id \in AgentIds :
                    nxt.agents[id] =
                      [call.pre.agents[id] EXCEPT
                         !.inventory[call.resource] = before(id) + moved(id)]
               /\ nxt.ledger = call.pre.ledger
               /\ nxt.tick = call.pre.tick

\* A call has moved a sender's last units, and another was refused for want
\* of stock.
C35_Witness ==
  /\ ResourceCall
  /\ ~ResourceCallRefused
  /\ call.fromId # call.toId
  /\ nxt.agents[call.fromId].inventory[call.resource] = 0
  /\ call.amount > 1

\* Other orders in which the agent mapping could be iterated.
Reversed(seq) == [i \in 1..Len(seq) |-> seq[(Len(seq) + 1) - i]]
CognitionOrders == {Reversed(AgentOrder), HouseholdIds \o FirmIds \o BankIds \o <<GOVT, CB>>}

\* What the cognition phase leaves behind.
CognitionOutcome(c) == [agents |-> c.nxt.agents, ledger |-> c.nxt.ledger, rng |-> c.rng]

\* C36  Cognition is order-insensitive: from every state in which the
\* cognition phase is about to run, running it over the agents in another
\* order, with the same generator state, gives the same agent fields, the
\* same ledger and the same generator state.
C36_CognitionOrderInsensitive ==
  pc = "cognition" =>
    \A order \in CognitionOrders :
      CognitionOutcome(CognitionIn(Ctx, config, order))
        = CognitionOutcome(Cognition(Ctx, config))

\* The firms of a world that have been deactivated.
DeadFirms(w) == {f \in AgentIds : w.agents[f].type = FIRM /\ ~w.agents[f].active}
TickBoundary == pc \in {"idle", "done"}

\* C39  A liquidated firm holds no money: at every tick boundary, in the
\* world a step was given and in the world it returns, every firm whose
\* active flag is false has cash exactly 0.
C39_DeadFirmHoldsNothing ==
  TickBoundary =>
    /\ \A f \in DeadFirms(cur) : cur.agents[f].cash = 0
    /\ \A f \in DeadFirms(nxt) : nxt.agents[f].cash = 0

\* A step has ended some ticks after a firm's cash was swept to the
\* government, and goods were sold in it.
C39_Witness ==
  /\ pc = "done"
  /\ SalesEntries # {}
  /\ \E f \in DeadFirms(snap) :
        \E i \in 1..Len(nxt.ledger) :
          /\ nxt.ledger[i].reason = "BANKRUPTCY_LIQUIDATION"
          /\ nxt.ledger[i].fromId = f
          /\ nxt.ledger[i].amount > 0
          /\ nxt.ledger[i].tick < nxt.tick - 1

\* A household's employer is unset or a firm that is in business.
EmployersAlive(w) ==
  \A h \in AgentIds :
    w.agents[h].type = HOUSEHOLD =>
      \/ w.agents[h].employedAt = NoId
      \/ /\ w.agents[h].employedAt \in AgentIds
         /\ w.agents[w.agents[h].employedAt].type = FIRM
         /\ w.agents[w.agents[h].employedAt].active

\* C40  No household works for a dead firm: at every tick boundary, in the
\* world a step was given and in the world it returns, every household's
\* employedAt is unset or names a firm whose active flag is true.
C40_NoDeadEmployer == TickBoundary => EmployersAlive(cur) /\ EmployersAlive(nxt)

\* A step has ended in which a firm that had staff was deactivated, while
\* another firm still employs a household.
C40_Witness ==
  /\ pc = "done"
  /\ \E f \in DeadFirms(nxt) : f \notin DeadFirms(snap) /\ StaffOf(snap, f) # {}
  /\ \E h \in AgentIds : nxt.agents[h].employedAt # NoId

\* The audit of the legacy engine, and the money in all hands.
LegacyRun == pc = "legacy"
LegacyDead == {id \in LegacyIds : ~cur.agents[id].isAlive}

\* C37  Legacy engine under the gold standard: in every state the money of
\* all agents, the dead included, sums to the initial total, and the audit's
\* integrityCheck is true.
C37_GoldStandardConserves ==
  (LegacyRun /\ config.mode = "Gold_Standard") =>
    /\ LegacyMoney(cur.agents) = cur.initialTotal
    /\ cur.totalMoney = cur.initialTotal
    /\ cur.govDebt = 0
    /\ cur.audit.integrityCheck

\* Under the gold standard wages and taxes were paid and food was sold in
\* the tick, and an agent has died.
C37_Witness ==
  /\ LegacyRun /\ config.mode = "Gold_Standard"
  /\ cur.tick >= 2
  /\ LegacyDead # {}
  /\ cur.agents["I"].isAlive
  /\ cur.agents["J"].money > snap.agents["J"].money
  /\ LET employed == {id \in LegacyIds : cur.agents[id].isEmployed}
     IN /\ employed # {}
        /\ cur.agents["I"].money >
             snap.agents["I"].money - (config.baseWage * Cardinality(employed))

\* C38  Legacy engine under fiat currency: in every state the money of all
\* agents sums to the initial total plus the government's debt, and the
\* audit's integrityCheck is true.
C38_FiatBalances ==
  (LegacyRun /\ config.mode = "Fiat_Currency") =>
    /\ LegacyMoney(cur.agents) = cur.initialTotal + cur.govDebt
    /\ cur.audit.integrityCheck

====
